---- MODULE Spec2Model ----
(***************************************************************************)
(* A model of the Feishu reply dispatcher of this workspace                *)
(* (src/plugins/feishu-local/src/reply-dispatcher.ts): the reasoning /     *)
(* answer splitter, sendFinalText, the per-chat consistency queue with its *)
(* retry loop, the deliver callback and the typing-indicator callbacks.    *)
(*                                                                         *)
(* Texts are sequences of characters, each a string (a back-quote is       *)
(* written "backtick", a non-ASCII code unit by its code), indexed from 0   *)
(* in the operators that mirror JavaScript's slice / index arithmetic.     *)
(***************************************************************************)
EXTENDS Integers, Sequences, FiniteSets, TLC

(***************************************************************************)
(* Bounds of the model                                                     *)
(***************************************************************************)
\* the longest text, in pieces of SplitPieces, the splitter is applied to
MaxPieces == 4
\* the number of payloads handed to deliver
MaxPayloads == 2
\* the number of sendMessageFeishu calls, failed ones included, in one run
MaxSends == 3
\* the largest channels.feishu.retry.maxRetries a configuration sets
MaxCfgRetries == 2
\* the text chunk limit resolveTextChunkLimit returns, in characters
TextChunkLimit == 4

(***************************************************************************)
(* Strings                                                                 *)
(***************************************************************************)
\* the value of an absent optional field (reasoningText?: string)
Undefined == << "undefined" >>

\* what JavaScript's \s and trim() treat as white space, among the model's characters
IsSpace(c) == c \in {" ", "\n"}

\* String.prototype.toLowerCase on one character
ToLowerCase(c) ==
  CASE c = "T" -> "t" [] c = "H" -> "h" [] c = "I" -> "i" [] c = "N" -> "n"
    [] c = "K" -> "k" [] c = "G" -> "g" [] c = "O" -> "o" [] c = "U" -> "u"
    [] c = "A" -> "a" [] OTHER -> c

LowerCase(s) == [i \in 1..Len(s) |-> ToLowerCase(s[i])]

\* s.slice(a, b), a and b counted from 0, b exclusive
Slice(s, a, b) == SubSeq(s, a + 1, b)

\* s.slice(a)
SliceFrom(s, a) == SubSeq(s, a + 1, Len(s))

StartsWith(s, p) == Len(p) <= Len(s) /\ SubSeq(s, 1, Len(p)) = p

Includes(s, c) == \E i \in 1..Len(s) : s[i] = c

RECURSIVE TrimStart(_)
TrimStart(s) == IF s # << >> /\ IsSpace(Head(s)) THEN TrimStart(Tail(s)) ELSE s

RECURSIVE TrimEnd(_)
TrimEnd(s) ==
  IF s # << >> /\ IsSpace(s[Len(s)]) THEN TrimEnd(SubSeq(s, 1, Len(s) - 1)) ELSE s

Trim(s) == TrimEnd(TrimStart(s))

(***************************************************************************)
(* Reasoning text processing                                               *)
(***************************************************************************)
\* the brain emoji (two UTF-16 code units), a space, four CJK characters and a
\* line feed: eight code units, each written by its code
REASONING_MESSAGE_PREFIX ==
  << "uD83E", "uDDE0", " ", "u601D", "u8003", "u8FC7", "u7A0B", "\n" >>

REASONING_TAG_PREFIXES ==
  { << "<", "t", "h", "i", "n", "k" >>,
    << "<", "t", "h", "i", "n", "k", "i", "n", "g" >>,
    << "<", "t", "h", "o", "u", "g", "h", "t" >>,
    << "<", "a", "n", "t", "t", "h", "i", "n", "k", "i", "n", "g" >> }

\* the tag names of THINKING_TAG_RE in the order the alternation tries them:
\* think(?:ing)? takes "thinking" before "think"
TagNames ==
  << << "t", "h", "i", "n", "k", "i", "n", "g" >>,
     << "t", "h", "i", "n", "k" >>,
     << "t", "h", "o", "u", "g", "h", "t" >>,
     << "a", "n", "t", "t", "h", "i", "n", "k", "i", "n", "g" >> >>

\* the first position >= p (from 0) of text that holds no white space: \s*
RECURSIVE SkipSpaces(_, _)
SkipSpaces(text, p) ==
  IF p < Len(text) /\ IsSpace(text[p + 1]) THEN SkipSpaces(text, p + 1) ELSE p

\* the lookahead (?=[\s>\/]|$) at position p
TagLookahead(text, p) ==
  p >= Len(text) \/ IsSpace(text[p + 1]) \/ text[p + 1] \in {">", "/"}

\* a tag name at position p, case-insensitively, followed by the lookahead
NameMatchesAt(text, p, name) ==
  /\ p + Len(name) <= Len(text)
  /\ LowerCase(Slice(text, p, p + Len(name))) = name
  /\ TagLookahead(text, p + Len(name))

\* THINKING_TAG_RE at position idx: the matched length (0: no match) and group 1.
\* The expression ends at the tag name: the closing ">" is looked at, never consumed.
ThinkingTagMatchAt(text, idx) ==
  IF idx >= Len(text) \/ text[idx + 1] # "<"
  THEN [len |-> 0, slash |-> FALSE]
  ELSE
    LET p1 == SkipSpaces(text, idx + 1)
        slash == p1 < Len(text) /\ text[p1 + 1] = "/"
        p2 == SkipSpaces(text, IF slash THEN p1 + 1 ELSE p1)
        hits == {k \in 1..Len(TagNames) : NameMatchesAt(text, p2, TagNames[k])}
    IN IF hits = {}
       THEN [len |-> 0, slash |-> FALSE]
       ELSE LET k == CHOOSE x \in hits : \A y \in hits : x <= y
            IN [len |-> p2 + Len(TagNames[k]) - idx, slash |-> slash]

\* regex.exec from lastIndex: the first index >= from with a match, or -1
RECURSIVE NextTagIndex(_, _)
NextTagIndex(text, from) ==
  IF from >= Len(text) THEN -1
  ELSE IF ThinkingTagMatchAt(text, from).len > 0 THEN from
  ELSE NextTagIndex(text, from + 1)

IsFenceAt(text, p) ==
  p + 3 <= Len(text) /\ Slice(text, p, p + 3) = << "backtick", "backtick", "backtick" >>

\* the first index >= from where a fence (three backticks) starts, or -1
RECURSIVE NextFence(_, _)
NextFence(text, from) ==
  IF from + 3 > Len(text) THEN -1
  ELSE IF IsFenceAt(text, from) THEN from
  ELSE NextFence(text, from + 1)

\* fenceRegex (fence, anything non-greedy, fence) from position from: the regions
\* as a set of [start, end)
RECURSIVE CodeRegionsFrom(_, _)
CodeRegionsFrom(text, from) ==
  LET open == NextFence(text, from)
      close == IF open < 0 THEN -1 ELSE NextFence(text, open + 3)
  IN IF open < 0 \/ close < 0 THEN {}
     ELSE {[start |-> open, end |-> close + 3]} \cup CodeRegionsFrom(text, close + 3)

findCodeRegions(text) == CodeRegionsFrom(text, 0)

\* no position counted as inside a code region
isInsideCode_Never(position, regions) == FALSE

isInsideCode(position, regions) ==
  \E region \in regions : position >= region.start /\ position < region.end

\* The scanning loop the extractor and the stripper share. keepInside = TRUE
\* collects the text inside thinking tags (the extractor), FALSE the text outside
\* (the stripper).
RECURSIVE ScanTags(_, _, _, _, _, _, _)
ScanTags(text, codeRegions, keepInside, from, inThinking, lastIndex, result) ==
  LET idx == NextTagIndex(text, from)
  IN IF idx < 0
     THEN IF inThinking = keepInside THEN result \o SliceFrom(text, lastIndex) ELSE result
     ELSE LET m == ThinkingTagMatchAt(text, idx)
          IN IF isInsideCode(idx, codeRegions)
             THEN ScanTags(text, codeRegions, keepInside, idx + m.len, inThinking,
                           lastIndex, result)
             ELSE ScanTags(text, codeRegions, keepInside, idx + m.len, ~m.slash,
                           idx + m.len,
                           IF inThinking = keepInside
                           THEN result \o Slice(text, lastIndex, idx) ELSE result)

extractThinkingFromTaggedStreamOutsideCode(text) ==
  IF text = << >> THEN << >>
  ELSE Trim(ScanTags(text, findCodeRegions(text), TRUE, 0, FALSE, 0, << >>))

\* called with trim: "both" only
stripReasoningTagsFromText(text) ==
  IF text = << >> THEN << >>
  ELSE Trim(ScanTags(text, findCodeRegions(text), FALSE, 0, FALSE, 0, << >>))

formatReasoningMessage(content) == REASONING_MESSAGE_PREFIX \o content

\* the partial-tag test without toLowerCase
isPartialReasoningTagPrefix_CaseSensitive(text) ==
  LET trimmed == TrimStart(text)
  IN /\ StartsWith(trimmed, << "<" >>)
     /\ ~Includes(trimmed, ">")
     /\ \E prefix \in REASONING_TAG_PREFIXES : StartsWith(prefix, trimmed)

isPartialReasoningTagPrefix(text) ==
  LET trimmed == LowerCase(TrimStart(text))
  IN /\ StartsWith(trimmed, << "<" >>)
     /\ ~Includes(trimmed, ">")
     /\ \E prefix \in REASONING_TAG_PREFIXES : StartsWith(prefix, trimmed)

splitFeishuReasoningText(text) ==
  LET trimmed == Trim(text)
      taggedReasoning == extractThinkingFromTaggedStreamOutsideCode(text)
      strippedAnswer == stripReasoningTagsFromText(text)
  IN IF isPartialReasoningTagPrefix(trimmed)
     THEN [reasoningText |-> Undefined, answerText |-> Undefined]
     ELSE IF StartsWith(trimmed, REASONING_MESSAGE_PREFIX) /\ Len(trimmed) > 11
     THEN LET contentAfterPrefix == Trim(SliceFrom(trimmed, Len(REASONING_MESSAGE_PREFIX)))
          IN [reasoningText |-> trimmed,
              answerText |-> IF contentAfterPrefix # << >> THEN contentAfterPrefix
                             ELSE Undefined]
     ELSE IF taggedReasoning = << >> /\ strippedAnswer = text
     THEN [reasoningText |-> Undefined, answerText |-> text]
     ELSE [reasoningText |-> IF taggedReasoning # << >>
                             THEN formatReasoningMessage(taggedReasoning) ELSE Undefined,
           answerText |-> IF strippedAnswer # << >> THEN strippedAnswer
                          ELSE IF trimmed # << >> THEN trimmed ELSE Undefined]

(***************************************************************************)
(* Retry configuration                                                     *)
(***************************************************************************)
DEFAULT_RETRY_ATTEMPTS == 4
DEFAULT_RETRY_DELAY_MS == 1200
DEFAULT_RETRYABLE_ERRORS ==
  {"230011", "231003", "500", "502", "503", "ETIMEDOUT", "ECONNRESET"}
FINAL_TEXT_REPLY_GONE_CODES == {"230011", "231003"}

\* a retryDelay a configuration sets, in ms
CfgRetryDelay == 500

\* cfg.channels.feishu.retry: a record holding any of maxRetries and retryDelay
RetryConfigs ==
  { [x \in {} |-> 0] }
    \cup { [maxRetries |-> n] : n \in 0..MaxCfgRetries }
    \cup { [retryDelay |-> CfgRetryDelay] }

getRetryConfig(retryConfig) ==
  [maxAttempts |-> IF "maxRetries" \in DOMAIN retryConfig
                   THEN retryConfig.maxRetries ELSE DEFAULT_RETRY_ATTEMPTS,
   baseDelayMs |-> IF "retryDelay" \in DOMAIN retryConfig
                   THEN retryConfig.retryDelay ELSE DEFAULT_RETRY_DELAY_MS,
   retryableErrors |-> IF "retryableErrors" \in DOMAIN retryConfig
                       THEN retryConfig.retryableErrors ELSE DEFAULT_RETRYABLE_ERRORS]

\* The text of an error, as the words it holds; String(error).includes(code) is
\* membership of the code among them.
NoError == << >>
ErrorTexts ==
  { << "Error", "230011" >>, << "Error", "231003" >>, << "Error", "ETIMEDOUT" >>,
    << "Error", "400" >> }

shouldFallbackToFreshMessage(error) ==
  \E code \in FINAL_TEXT_REPLY_GONE_CODES : Includes(error, code)

(***************************************************************************)
(* Chunks                                                                  *)
(***************************************************************************)
\* core.channel.text.chunkTextWithMode in its length mode: the number of chunks of
\* at most limit characters a text is cut into (convertMarkdownTables leaves the
\* model's texts, which hold no table, as they are)
chunkCount(text, limit) == (Len(text) + limit - 1) \div limit

\* sendFinalText with "first = false" left out: every chunk is sent as the first
sendFinalTextMessage_FirstNeverCleared(p, chunk, replyToMessageId, mentions) ==
  [payload |-> p, kind |-> "answer", chunk |-> chunk,
   replyToMessageId |-> replyToMessageId, mentions |-> mentions]

\* sendFinalText's sendMessageFeishu call for chunk number chunk (from 1): first is
\* true until one chunk has been sent, and a failed send ends the call
sendFinalTextMessage(p, chunk, replyToMessageId, mentions) ==
  LET first == chunk = 1
  IN [payload |-> p, kind |-> "answer", chunk |-> chunk,
      replyToMessageId |-> IF first THEN replyToMessageId ELSE FALSE,
      mentions |-> IF first THEN mentions ELSE FALSE]

\* deliver's sendMessageFeishu call for the reasoning message: the loop breaks
\* after its first chunk
reasoningMessage(p, replyToMessageId, mentions) ==
  [payload |-> p, kind |-> "reasoning", chunk |-> 1,
   replyToMessageId |-> replyToMessageId, mentions |-> mentions]

\* onFailure's sendMessageFeishu call: the plain-text failure notice
failureNoticeMessage(p) ==
  [payload |-> p, kind |-> "notice", chunk |-> 1,
   replyToMessageId |-> FALSE, mentions |-> FALSE]

(***************************************************************************)
(* State                                                                   *)
(***************************************************************************)
VARIABLES
  pieces,       \* the indices in SplitPieces of the pieces of splitText, in order
  splitText,    \* the text handed to splitFeishuReasoningText
  splitResult,  \* what it returned
  retryCfg,     \* cfg.channels.feishu.retry
  params,       \* createFeishuReplyDispatcher's replyToMessageId and mentionTargets
  payloads,     \* the payloads deliver was called with, by number, each with the
                \* reasoningText and answerText deliver split it into
  delivered,    \* the number of deliver calls begun
  dpc,          \* where the running deliver call stands
  dchunk,       \* the chunk deliver's sendFinalText call sends next
  attempts,     \* per payload, the sendFinalText calls that ended, in order
  jobs,         \* per payload, its queueFinalTextWithConsistency delivery
  finalTextDeliveryQueues,  \* queue key -> the delivery last enqueued (0: no entry)
  sleeps,       \* per payload, the delays slept between queued attempts
  notice,       \* per payload, what onFailure did
  chat,         \* the messages sendMessageFeishu delivered to the chats, in order
  failures,     \* the number of sendMessageFeishu calls that failed
  typingState,  \* createFeishuReplyDispatcher's typingState: 0 for null, else the
                \* indicator it refers to
  replyStarts,  \* the number of onReplyStart calls
  adding,       \* the indicators whose addTypingIndicator call is in flight
  removing,     \* the indicators whose removeTypingIndicator call is in flight
  held,         \* the indicators shown on the replied-to message
  hostIdle,     \* the host called onIdle or onError
  cleaned,      \* the host called onCleanup
  typingLog     \* the numbers of logged start and stop failures

splitVars == << pieces, splitText, splitResult >>
dispVars ==
  << retryCfg, params, payloads, delivered, dpc, dchunk, attempts, jobs,
     finalTextDeliveryQueues, sleeps, notice, chat, failures >>
typingVars ==
  << typingState, replyStarts, adding, removing, held, hostIdle, cleaned, typingLog >>

(***************************************************************************)
(* State of the multi-agent orchestrator: the file-backed task board       *)
(***************************************************************************)
MaxTasks == 3
MaxEvents == 5

VARIABLES
  tasks,        \* state/tasks.snapshot.json: the materialized task map
  eventLog,     \* state/tasks.jsonl: the append-only event stream
  response      \* what the router answered to the last command

boardVars == << tasks, eventLog, response >>
\* stale lock recovery: the lock files of state/locks/, the clock, and
\* state/locks/recovery.audit.jsonl
MaxLocks == 2
MaxTime == 4
MaxAudit == 2
LockTtl == 2
GraceWindow == 1
VARIABLES locks, now, audit
lockVars == << locks, now, audit >>
\* budget governance: state/budget.state.json and the budget part of the dispatch
\* output
VARIABLES budget, budgetCheck
budgetVars == << budget, budgetCheck >>
\* failure recovery: state/recovery.state.json and the recovery part of the
\* dispatch output
RecoveryMaxAttempts == 3
CooldownSec == 1
VARIABLES recovery, decision
recoveryVars == << recovery, decision >>
orchVars == << boardVars, lockVars, budgetVars, recoveryVars >>

(***************************************************************************)
(* State of the skill playbooks                                            *)
(***************************************************************************)
\* multi-agent dispatch (SKILLS/multi-agent-orchestrator.md): the sub-tasks of
\* one fan-out and whether the main agent has synthesized their results
VARIABLES subtasks, synthesized
fanoutVars == << subtasks, synthesized >>

\* agent teams (agent-team-starter/SKILL.md): the team, its teammates with their
\* tasks, and the lead's final summary
VARIABLES team
teamVars == << team >>

\* daily market insight (projects/daily-market-insight/scripts): the run date, the
\* files under data/, reports/ and logs/, the scripts run on each date, and what
\* the last script did
MaxDays == 2
VARIABLES today, files, ran, lastRun
marketVars == << today, files, ran, lastRun >>

\* knowledge-preflight-router plugin: the hosts the plugin is registered with
MaxHosts == 3
MaxRegistrations == 2
VARIABLES hosts
pluginVars == << hosts >>

\* the evolved dispatcher (plugins/feishu-local) and the original one (.tmp), each
\* delivering the same final text against the same outcomes of sendMessageFeishu
MaxCalls == 6
VARIABLES evolved, original
refineVars == << evolved, original >>

skillVars == << fanoutVars, teamVars, marketVars, pluginVars, refineVars >>
vars == << splitVars, dispVars, typingVars, orchVars, skillVars >>

\* Decompose: 2-5 independent subtasks
MinSubtasks == 2
MaxSubtasks == 5
SubtaskIds == 1..MaxSubtasks
NoSubtask == [status |-> "none", attempts |-> 0, delays |-> << >>]
FanoutIdle == subtasks = [i \in SubtaskIds |-> NoSubtask] /\ synthesized = FALSE
TeammateNames == {"researcher", "implementer", "reviewer"}
NoTeammate == [status |-> "none", task |-> "none"]
TeamIdle ==
  team = [created |-> FALSE, summarized |-> FALSE,
          teammates |-> [n \in TeammateNames |-> NoTeammate]]
Dates == 1..MaxDays
\* $DATA_DIR/search_tasks_${DATE_TAG}.json, $LOG_DIR/run_${DATE_TAG}.log,
\* $REPORT_DIR/daily_insight_${DATE_TAG}.md, and a path of the caller's choice
DatedFile(kind, d) == << kind, d >>
FileNames ==
  { DatedFile(kind, d) : kind \in {"search_tasks", "run", "daily_insight"}, d \in Dates }
    \cup { << "out", 0 >> }
NoFile == [kind |-> "absent", date |-> 0]
NoRun == [script |-> "none", stdout |-> "none", exit |-> 0, runner |-> FALSE]
MarketIdle ==
  /\ today = 1
  /\ files = [f \in FileNames |-> NoFile]
  /\ ran = [d \in Dates |-> {}]
  /\ lastRun = NoRun
Hosts == 1..MaxHosts
\* an OpenClawPluginApi: whether its runtime has a log function, the lines logged,
\* what plugins have registered with it, and the calls of register made
NewApi(hasLog) == [hasLog |-> hasLog, log |-> << >>, registry |-> {}, calls |-> 0]
PluginIdle == hosts = [h \in Hosts |-> NewApi(TRUE)]
\* a dispatcher deliver was not called on yet
NoDelivery ==
  [text |-> << >>, reasoning |-> Undefined, answer |-> Undefined, phase |-> "none",
   chunk |-> 0, attempt |-> 0, replyToId |-> FALSE, calls |-> << >>]
RefineIdle == evolved = NoDelivery /\ original = NoDelivery
SkillsIdle == FanoutIdle /\ TeamIdle /\ MarketIdle /\ PluginIdle /\ RefineIdle

TaskIds == 1..MaxTasks

\* a task id of the board with no task yet
NoTask ==
  [status |-> "none", evidence |-> FALSE, assigneeHint |-> "none", relatedTo |-> 0,
   history |-> << >>, reasonCode |-> "none", acceptanceReasonCode |-> "none"]

NoResponse == [kind |-> "none", taskId |-> 0, text |-> "none"]

\* init-task-board: an empty event stream and an empty snapshot
BoardIdle ==
  /\ tasks = [t \in TaskIds |-> NoTask]
  /\ eventLog = << >>
  /\ response = NoResponse

LockIds == 1..MaxLocks
NoLock == [held |-> FALSE, ownerAlive |-> FALSE, expiresAt |-> 0]
LocksIdle == locks = [l \in LockIds |-> NoLock] /\ now = 0 /\ audit = << >>

\* the dimension of the budget state is taskId + agent
BudgetKeys == {<< 1, "coder" >>, << 1, "debugger" >>}
NoBudget == [tokenUsage |-> 0, elapsedMs |-> 0, retryCount |-> 0]
NoBudgetCheck ==
  [key |-> << 0, "none" >>, spawned |-> FALSE, action |-> "none",
   reasonCode |-> "none", nextAssignee |-> "none", exceededKeys |-> {}]
BudgetIdle == budget = [k \in BudgetKeys |-> NoBudget] /\ budgetCheck = NoBudgetCheck

\* the dimension of the recovery state is taskId + reasonCode
RecoveryKeys == {<< 1, "spawn_failed" >>, << 1, "incomplete_output" >>}
NoRecovery ==
  [attempt |-> 0, nextAssignee |-> "none", action |-> "none",
   recoveryState |-> "none", cooldownUntilTs |-> 0]
NoDecision == [key |-> << 0, "none" >>, cooldownActive |-> FALSE, state |-> NoRecovery]
RecoveryIdle ==
  recovery = [k \in RecoveryKeys |-> NoRecovery] /\ decision = NoDecision

OrchestratorIdle == BoardIdle /\ LocksIdle /\ BudgetIdle /\ RecoveryIdle

PayloadIds == 1..MaxPayloads

\* account.accountId : chatId of the dispatchers that deliver
QueueKeys == {"main:chatA", "main:chatB"}

TextOk == << "o", "k" >>
TextLong == << "a", "n", "s", "w", "e", "r" >>
TextTagged ==
  << "<", "t", "h", "i", "n", "k", ">", "r", "<", "/", "t", "h", "i", "n", "k", ">",
     "o", "k" >>
TextBlank == << " " >>
TextPartial == << "<", "t", "h", "i" >>
TextThinkOnly ==
  << "<", "t", "h", "i", "n", "k", ">", "x", "<", "/", "t", "h", "i", "n", "k", ">" >>

\* what deliver is called with: a payload and info.kind
DeliverPayloads ==
  { [kind |-> "final", text |-> t] : t \in {TextOk, TextLong, TextTagged, TextBlank} }
    \cup { [kind |-> "block", text |-> TextOk] }

DispatcherParams ==
  { [replyToMessageId |-> TRUE, mentionTargets |-> TRUE],
    [replyToMessageId |-> FALSE, mentionTargets |-> TRUE] }

NoPayload ==
  [kind |-> "none", text |-> << >>, key |-> "", reasoningText |-> Undefined,
   answerText |-> Undefined]
NoJob ==
  [pc |-> "none", previous |-> 0, attempt |-> 0, chunk |-> 0, replyToId |-> FALSE,
   result |-> "none"]
NoNotice == [calls |-> 0, sends |-> 0, pending |-> 0, logged |-> 0]

\* createFeishuReplyDispatcher's typingState = null, no callback called yet
TypingIdle ==
  /\ typingState = 0
  /\ replyStarts = 0
  /\ adding = {}
  /\ removing = {}
  /\ held = {}
  /\ hostIdle = FALSE
  /\ cleaned = FALSE
  /\ typingLog = [start |-> 0, stop |-> 0]

\* no deliver call yet
NoDeliveries ==
  /\ payloads = [p \in PayloadIds |-> NoPayload]
  /\ delivered = 0
  /\ dpc = "idle"
  /\ dchunk = 0
  /\ attempts = [p \in PayloadIds |-> << >>]
  /\ jobs = [p \in PayloadIds |-> NoJob]
  /\ finalTextDeliveryQueues = [k \in QueueKeys |-> 0]
  /\ sleeps = [p \in PayloadIds |-> << >>]
  /\ notice = [p \in PayloadIds |-> NoNotice]
  /\ chat = << >>
  /\ failures = 0

\* the dispatcher before any deliver call, under one configuration
DispatcherIdle ==
  /\ retryCfg = [x \in {} |-> 0]
  /\ params = [replyToMessageId |-> TRUE, mentionTargets |-> TRUE]
  /\ NoDeliveries

\* no text split yet
NoSplitText ==
  /\ pieces = << >>
  /\ splitText = << >>
  /\ splitResult = splitFeishuReasoningText(<< >>)

Init ==
  /\ NoSplitText
  /\ retryCfg \in RetryConfigs
  /\ params \in DispatcherParams
  /\ NoDeliveries
  /\ TypingIdle
  /\ OrchestratorIdle
  /\ SkillsIdle

(***************************************************************************)
(* queueFinalTextWithConsistency                                           *)
(*                                                                         *)
(* A step of the model is one task of the event loop with the microtasks   *)
(* it leaves: a network call or a timer ends, and the code runs up to its  *)
(* next await of a network call or a timer. The promise callbacks of the   *)
(* chain (catch, then, finally) are such microtasks.                       *)
(***************************************************************************)
\* the for loop's test
loopContinues(attempt, maxAttempts) == attempt <= maxAttempts

\* the test for giving up off by one: attempt > maxAttempts
attemptsExhausted_OffByOne(attempt, maxAttempts) == attempt > maxAttempts

\* the catch block's test for giving up
attemptsExhausted(attempt, maxAttempts) == attempt >= maxAttempts

\* a constant delay: baseDelayMs not scaled by the attempt number
retryDelay_Constant(baseDelayMs, attempt) == baseDelayMs

\* the delay slept after a failed attempt
retryDelay(baseDelayMs, attempt) == baseDelayMs * attempt

\* the catch block's first statement
replyToIdAfterFailure(replyToId, error) ==
  IF replyToId /\ shouldFallbackToFreshMessage(error) THEN FALSE ELSE replyToId

\* params.onFailure?.(...): the callback starts and reaches its await of the send
onFailureCalled(n) ==
  [n EXCEPT !.calls = @ + 1, !.sends = @ + 1, !.pending = @ + 1]

\* the notice was sent
onFailureNoticeSent(n) == [n EXCEPT !.pending = @ - 1]

\* the notice sent again after its send threw
onFailureNoticeFailed_Retried(n) == [n EXCEPT !.sends = @ + 1, !.logged = @ + 1]

\* the send of the notice threw: the catch block logs it, and nothing is thrown on
onFailureNoticeFailed(n) == [n EXCEPT !.pending = @ - 1, !.logged = @ + 1]

\* the delivery as queueFinalTextWithConsistency leaves it: chained after previous
enqueuedJob(previous, replyToMessageId) ==
  [pc |-> "waiting", previous |-> previous, attempt |-> 0, chunk |-> 0,
   replyToId |-> replyToMessageId, result |-> "pending"]

\* the delivery not chained: run starts whatever the key's entry is doing
previousSettled_NotChained(js, previous) == TRUE

\* previous.catch(() => {}).then(run): whether run starts with the microtasks of
\* the enqueueing step. previous is the key's entry, or Promise.resolve() (0); an
\* entry is the "current" of an earlier delivery, settled when its finally has run.
previousSettled(js, previous) ==
  IF previous = 0 THEN TRUE ELSE js[previous].pc = "done"

\* the chained callback starts: let replyToId, and the first pass of the loop if
\* the loop's test lets it in
runStarted(job, maxAttempts) ==
  IF loopContinues(1, maxAttempts)
  THEN [job EXCEPT !.pc = "sending", !.attempt = 1, !.chunk = 1]
  ELSE [job EXCEPT !.pc = "settled", !.attempt = 1, !.result = "none"]

\* the finally callback deleting its key's entry whichever delivery it refers to
queuesAfterFinally_Unconditional(queues, key, p) == [queues EXCEPT ![key] = 0]

\* the finally callback deleting every entry of the map, not only its own key's
queuesAfterFinally_ClearsMap(queues, key, p) ==
  IF queues[key] = p THEN [k \in DOMAIN queues |-> 0] ELSE queues

\* the finally callback of delivery p: the key's entry is deleted if it is still p
queuesAfterFinally(queues, key, p) ==
  IF queues[key] = p THEN [queues EXCEPT ![key] = 0] ELSE queues

\* the chain as previous.then(run) with a failed delivery rejecting: nothing runs
\* after a delivery that exhausted its attempts
chainedAfter_OnlyAfterSuccess(js, p) ==
  IF js[p].result = "failed"
  THEN {}
  ELSE {s \in PayloadIds : js[s].pc = "waiting" /\ js[s].previous = p}

\* previous.catch(() => {}).then(run): the deliveries whose run starts when the
\* "current" of delivery p settles, however p ended
chainedAfter(js, p) ==
  {s \in PayloadIds : js[s].pc = "waiting" /\ js[s].previous = p}

\* The callback of delivery p has returned: its finally runs, "current" settles and
\* the delivery chained after p, if there is one, starts (and, when its loop runs
\* no pass, returns at once in turn).
RECURSIVE settleChain(_, _, _)
settleChain(js, queues, p) ==
  LET queues1 == queuesAfterFinally(queues, payloads[p].key, p)
      js1 == [js EXCEPT ![p] = [@ EXCEPT !.pc = "done"]]
      chained == chainedAfter(js, p)
  IN IF chained = {}
     THEN [jobs |-> js1, queues |-> queues1]
     ELSE LET s == CHOOSE x \in chained : TRUE
              started == runStarted(js1[s], getRetryConfig(retryCfg).maxAttempts)
              js2 == [js1 EXCEPT ![s] = started]
          IN IF started.pc = "settled"
             THEN settleChain(js2, queues1, s)
             ELSE [jobs |-> js2, queues |-> queues1]

\* queueFinalTextWithConsistency for the answer of payload p, with the microtasks
\* that follow its return
queueFinalTextWithConsistency(p, queueKey, replyToMessageId) ==
  LET previous == finalTextDeliveryQueues[queueKey]
      job == enqueuedJob(previous, replyToMessageId)
      queues1 == [finalTextDeliveryQueues EXCEPT ![queueKey] = p]
      started == runStarted(job, getRetryConfig(retryCfg).maxAttempts)
  IN IF ~previousSettled(jobs, previous)
     THEN [jobs |-> [jobs EXCEPT ![p] = job], queues |-> queues1]
     ELSE IF started.pc = "settled"
     THEN settleChain([jobs EXCEPT ![p] = started], queues1, p)
     ELSE [jobs |-> [jobs EXCEPT ![p] = started], queues |-> queues1]

(***************************************************************************)
(* deliver                                                                 *)
(***************************************************************************)
\* sendMessageFeishu may be called once more, and may fail once more
maySend == Len(chat) + failures < MaxSends

\* reasoningText?.trim() / answerText?.trim() is truthy
NonBlank(t) == t # Undefined /\ Trim(t) # << >>

\* the chunks of the answer text of payload p
answerChunks(p) == chunkCount(payloads[p].answerText, TextChunkLimit)

\* what is kept of a sendFinalText call that ended: whether it carried the reply-to
\* reference, whether it threw, and whether what it threw reads as "reply gone"
AttemptRecord(via, replyToMessageId, error) ==
  [via |-> via, replyToMessageId |-> replyToMessageId, failed |-> error # NoError,
   replyGone |-> shouldFallbackToFreshMessage(error)]

\* The chats are interchangeable: the first payload goes to chatA.
keyAllowed(key) == IF delivered = 0 THEN key = "main:chatA" ELSE TRUE

\* payload.text ?? ""
textOf(payload) == IF payload.text = Undefined THEN << >> ELSE payload.text

\* deliver returning early for a blank text only, whatever info.kind is
returnsEarly_AnyKind(kind, text) == Trim(text) = << >>

\* deliver's early returns: info.kind is not "final", or the text is blank
returnsEarly(kind, text) == kind # "final" \/ Trim(text) = << >>

\* deliver up to its first await: the early returns and the split
DeliverBegin(pl, key) ==
  /\ dpc = "idle"
  /\ delivered < MaxPayloads
  /\ keyAllowed(key)
  /\ LET p == delivered + 1
         split == splitFeishuReasoningText(textOf(pl))
     IN /\ delivered' = p
        /\ payloads' = [payloads EXCEPT ![p] =
             [kind |-> pl.kind, text |-> textOf(pl), key |-> key,
              reasoningText |-> IF returnsEarly(pl.kind, textOf(pl))
                                THEN Undefined ELSE split.reasoningText,
              answerText |-> IF returnsEarly(pl.kind, textOf(pl))
                             THEN Undefined ELSE split.answerText]]
        /\ IF returnsEarly(pl.kind, textOf(pl))
           THEN dpc' = "idle" /\ dchunk' = 0
           ELSE IF NonBlank(split.reasoningText)
           THEN dpc' = "reasoning" /\ dchunk' = 0
           ELSE IF NonBlank(split.answerText)
           THEN dpc' = "answer" /\ dchunk' = 1
           ELSE dpc' = "idle" /\ dchunk' = 0
  /\ UNCHANGED << retryCfg, params, attempts, jobs, finalTextDeliveryQueues, sleeps,
                  notice, chat, failures >>
  /\ UNCHANGED << splitVars, typingVars, orchVars, skillVars >>

\* deliver without the try around the send of the reasoning message: a failure
\* ends the deliver call
DeliverReasoning_FailureEndsDeliver(error) ==
  /\ dpc = "reasoning"
  /\ maySend
  /\ LET p == delivered
     IN /\ IF error = NoError
           THEN /\ chat' = Append(chat, reasoningMessage(p, params.replyToMessageId,
                                                          params.mentionTargets))
                /\ failures' = failures
           ELSE /\ failures' = failures + 1
                /\ chat' = chat
        /\ IF error = NoError /\ NonBlank(payloads[p].answerText)
           THEN dpc' = "answer" /\ dchunk' = 1
           ELSE dpc' = "idle" /\ dchunk' = 0
  /\ UNCHANGED << retryCfg, params, payloads, delivered, attempts, jobs,
                  finalTextDeliveryQueues, sleeps, notice >>
  /\ UNCHANGED << splitVars, typingVars, orchVars, skillVars >>

\* the send of the reasoning message returns or throws; a failure is logged and
\* deliver goes on to the answer
DeliverReasoning(error) ==
  /\ dpc = "reasoning"
  /\ maySend
  /\ LET p == delivered
     IN /\ IF error = NoError
           THEN /\ chat' = Append(chat, reasoningMessage(p, params.replyToMessageId,
                                                          params.mentionTargets))
                /\ failures' = failures
           ELSE /\ failures' = failures + 1
                /\ chat' = chat
        /\ IF NonBlank(payloads[p].answerText)
           THEN dpc' = "answer" /\ dchunk' = 1
           ELSE dpc' = "idle" /\ dchunk' = 0
  /\ UNCHANGED << retryCfg, params, payloads, delivered, attempts, jobs,
                  finalTextDeliveryQueues, sleeps, notice >>
  /\ UNCHANGED << splitVars, typingVars, orchVars, skillVars >>

\* one sendMessageFeishu call of deliver's sendFinalText returns or throws; a
\* throw queues the answer for consistency delivery
DeliverAnswer(error) ==
  /\ dpc = "answer"
  /\ maySend
  /\ LET p == delivered
         key == payloads[p].key
     IN IF error = NoError
        THEN /\ chat' = Append(chat, sendFinalTextMessage(p, dchunk, params.replyToMessageId,
                                                           params.mentionTargets))
             /\ IF dchunk >= answerChunks(p)
                THEN /\ attempts' = [attempts EXCEPT ![p] =
                          Append(@, AttemptRecord("direct", params.replyToMessageId, NoError))]
                     /\ dpc' = "idle"
                     /\ dchunk' = 0
                ELSE /\ dchunk' = dchunk + 1
                     /\ UNCHANGED << attempts, dpc >>
             /\ UNCHANGED << jobs, finalTextDeliveryQueues, failures >>
        ELSE LET queued == queueFinalTextWithConsistency(p, key, params.replyToMessageId)
             IN /\ failures' = failures + 1
                /\ attempts' = [attempts EXCEPT ![p] =
                     Append(@, AttemptRecord("direct", params.replyToMessageId, error))]
                /\ jobs' = queued.jobs
                /\ finalTextDeliveryQueues' = queued.queues
                /\ dpc' = "idle"
                /\ dchunk' = 0
                /\ chat' = chat
  /\ UNCHANGED << retryCfg, params, payloads, delivered, sleeps, notice >>
  /\ UNCHANGED << splitVars, typingVars, orchVars, skillVars >>

(***************************************************************************)
(* The chained delivery's callback                                         *)
(***************************************************************************)
\* the for loop's sendMessageFeishu call returns or throws. When the callback
\* returns, the microtasks that follow run with it: finally, and the start of the
\* delivery chained after this one.
JobSend(p, error) ==
  /\ jobs[p].pc = "sending"
  /\ maySend
  /\ LET job == jobs[p]
         rc == getRetryConfig(retryCfg)
     IN IF error = NoError
        THEN /\ chat' = Append(chat, sendFinalTextMessage(p, job.chunk, job.replyToId,
                                                           params.mentionTargets))
             /\ IF job.chunk >= answerChunks(p)
                THEN LET settled == settleChain(
                           [jobs EXCEPT ![p] = [@ EXCEPT !.result = "delivered"]],
                           finalTextDeliveryQueues, p)
                     IN /\ attempts' = [attempts EXCEPT ![p] =
                             Append(@, AttemptRecord("queue", job.replyToId, NoError))]
                        /\ jobs' = settled.jobs
                        /\ finalTextDeliveryQueues' = settled.queues
                ELSE /\ jobs' = [jobs EXCEPT ![p] = [@ EXCEPT !.chunk = @ + 1]]
                     /\ UNCHANGED << attempts, finalTextDeliveryQueues >>
             /\ UNCHANGED << sleeps, notice, failures >>
        ELSE /\ failures' = failures + 1
             /\ chat' = chat
             /\ attempts' = [attempts EXCEPT ![p] =
                  Append(@, AttemptRecord("queue", job.replyToId, error))]
             /\ IF attemptsExhausted(job.attempt, rc.maxAttempts)
                THEN LET settled == settleChain(
                           [jobs EXCEPT ![p] =
                              [@ EXCEPT !.result = "failed",
                                        !.replyToId = replyToIdAfterFailure(@, error)]],
                           finalTextDeliveryQueues, p)
                     IN /\ jobs' = settled.jobs
                        /\ finalTextDeliveryQueues' = settled.queues
                        /\ notice' = [notice EXCEPT ![p] = onFailureCalled(@)]
                        /\ sleeps' = sleeps
                ELSE /\ jobs' = [jobs EXCEPT ![p] =
                          [@ EXCEPT !.pc = "sleeping",
                                    !.replyToId = replyToIdAfterFailure(@, error)]]
                     /\ sleeps' = [sleeps EXCEPT ![p] =
                          Append(@, retryDelay(rc.baseDelayMs, job.attempt))]
                     /\ UNCHANGED << notice, finalTextDeliveryQueues >>
  /\ UNCHANGED << retryCfg, params, payloads, delivered, dpc, dchunk >>
  /\ UNCHANGED << splitVars, typingVars, orchVars, skillVars >>

\* the sleep ends: attempt++, the loop's test, the next sendFinalText call
JobWake(p) ==
  /\ jobs[p].pc = "sleeping"
  /\ LET woken == [jobs EXCEPT ![p] = [@ EXCEPT !.attempt = @ + 1]]
         rc == getRetryConfig(retryCfg)
     IN IF loopContinues(woken[p].attempt, rc.maxAttempts)
        THEN /\ jobs' = [woken EXCEPT ![p] = [@ EXCEPT !.pc = "sending", !.chunk = 1]]
             /\ finalTextDeliveryQueues' = finalTextDeliveryQueues
        ELSE LET settled == settleChain([woken EXCEPT ![p] = [@ EXCEPT !.result = "none"]],
                                        finalTextDeliveryQueues, p)
             IN /\ jobs' = settled.jobs
                /\ finalTextDeliveryQueues' = settled.queues
  /\ UNCHANGED << retryCfg, params, payloads, delivered, dpc, dchunk, attempts, sleeps,
                  notice, chat, failures >>
  /\ UNCHANGED << splitVars, typingVars, orchVars, skillVars >>

\* onFailure's send of the failure notice returns or throws
NoticeSend(p, error) ==
  /\ notice[p].pending > 0
  /\ maySend
  /\ IF error = NoError
     THEN /\ chat' = Append(chat, failureNoticeMessage(p))
          /\ notice' = [notice EXCEPT ![p] = onFailureNoticeSent(@)]
          /\ failures' = failures
     ELSE /\ failures' = failures + 1
          /\ chat' = chat
          /\ notice' = [notice EXCEPT ![p] = onFailureNoticeFailed(@)]
  /\ UNCHANGED << retryCfg, params, payloads, delivered, dpc, dchunk, attempts, jobs,
                  finalTextDeliveryQueues, sleeps >>
  /\ UNCHANGED << splitVars, typingVars, orchVars, skillVars >>

SendOutcomes == {NoError} \cup ErrorTexts

Next ==
  \/ \E pl \in DeliverPayloads, key \in QueueKeys : DeliverBegin(pl, key)
  \/ \E error \in SendOutcomes : DeliverReasoning(error)
  \/ \E error \in SendOutcomes : DeliverAnswer(error)
  \/ \E p \in PayloadIds, error \in SendOutcomes : JobSend(p, error)
  \/ \E p \in PayloadIds : JobWake(p)
  \/ \E p \in PayloadIds, error \in SendOutcomes : NoticeSend(p, error)

Spec == Init /\ [][Next]_vars

\* sendMessageFeishu calls return and timers fire: a queued attempt in flight ends
\* and a sleeping delivery wakes
SpecFair ==
  /\ Spec
  /\ \A p \in PayloadIds : WF_vars(\E error \in SendOutcomes : JobSend(p, error))
  /\ \A p \in PayloadIds : WF_vars(JobWake(p))

(***************************************************************************)
(* Claims about the dispatcher (specification Spec)                        *)
(***************************************************************************)
queueAttempts(p) == SelectSeq(attempts[p], LAMBDA a : a.via = "queue")
failedQueueAttempts(p) == SelectSeq(attempts[p], LAMBDA a : a.via = "queue" /\ a.failed)
answerMessages(p) == SelectSeq(chat, LAMBDA m : m.kind = "answer" /\ m.payload = p)
noticeMessages(p) == SelectSeq(chat, LAMBDA m : m.kind = "notice" /\ m.payload = p)
Enqueued(p) == jobs[p].pc # "none"
maxAttemptsNow == getRetryConfig(retryCfg).maxAttempts

\* C1: the answers of the final payloads delivered to one account and chat reach
\* the chat in the order deliver was called with them, also when an earlier one
\* failed directly and is retried through the queue.
C1_AnswersObservedInDeliverOrder ==
  \A i \in 1..Len(chat), j \in 1..Len(chat) :
    (i < j /\ chat[i].kind = "answer" /\ chat[j].kind = "answer"
       /\ payloads[chat[i].payload].key = payloads[chat[j].payload].key)
      => chat[i].payload <= chat[j].payload

\* C2: of two deliveries enqueued under one key, the one enqueued later has not
\* started its first attempt while the earlier one is still attempting, sleeping
\* or waiting; at most one delivery of a key is attempting or sleeping.
C2_QueuedDeliveriesRunOneAtATime ==
  \A i \in PayloadIds, j \in PayloadIds :
    (i < j /\ Enqueued(i) /\ Enqueued(j) /\ payloads[i].key = payloads[j].key)
      => (jobs[j].pc # "waiting" => jobs[i].pc = "done")

\* a delivery that waited for the one before it, which has finished, and is now
\* attempting
C2_Witness ==
  \E i \in PayloadIds, j \in PayloadIds :
    /\ i < j
    /\ jobs[j].previous = i
    /\ jobs[i].pc = "done"
    /\ jobs[j].pc = "sending"

\* C3: a queued delivery all of whose attempts failed has called onFailure once,
\* which made one send of the failure notice, never repeated; a notice whose send
\* threw ends in the catch block's log entry; no other delivery calls onFailure.
C3_OneFailureNoticeNeverRetried ==
  \A p \in PayloadIds :
    /\ jobs[p].result = "failed" => notice[p].calls = 1 /\ notice[p].sends = 1
    /\ jobs[p].result # "failed" => notice[p].calls = 0 /\ notice[p].sends = 0
    /\ notice[p].pending + notice[p].logged + Len(noticeMessages(p)) = notice[p].sends

\* every attempt of a queued delivery failed, and so did the notice
C3_Witness ==
  \E p \in PayloadIds :
    /\ jobs[p].result = "failed"
    /\ Len(failedQueueAttempts(p)) = maxAttemptsNow
    /\ notice[p].pending = 0
    /\ notice[p].logged = 1

\* C4: the retry loop calls sendFinalText at most maxAttempts times (4 unless
\* configured, the direct attempt of deliver not counted), makes no
\* attempt after a successful one, and has returned after the maxAttempts-th
\* failure.
C4_RetryLoopBounded ==
  \A p \in PayloadIds :
    LET q == queueAttempts(p)
        inFlight == IF jobs[p].pc = "sending" THEN 1 ELSE 0
    IN /\ ("maxRetries" \notin DOMAIN retryCfg) => maxAttemptsNow = 4
       /\ Len(q) + inFlight <= maxAttemptsNow
       /\ \A k \in 1..Len(q) : ~q[k].failed => (k = Len(q) /\ jobs[p].pc = "done"
                                                  /\ jobs[p].result = "delivered")
       /\ (Enqueued(p) /\ Len(failedQueueAttempts(p)) >= maxAttemptsNow)
            => jobs[p].pc = "done"
       /\ jobs[p].pc = "done" =>
            \/ jobs[p].result = "delivered"
            \/ jobs[p].result = "failed" /\ Len(q) = maxAttemptsNow
            \/ jobs[p].result = "none" /\ maxAttemptsNow < 1

\* the loop gave up after two or more failed attempts
C4_Witness ==
  \E p \in PayloadIds :
    /\ jobs[p].pc = "done"
    /\ jobs[p].result = "failed"
    /\ Len(failedQueueAttempts(p)) = maxAttemptsNow
    /\ maxAttemptsNow >= 2

\* C5: once an attempt of an answer that carried the reply-to reference (the
\* direct one or a queued one) failed with a reply-gone error, every later attempt
\* of that answer is sent without the reference.
C5_NoReplyToAfterReplyGone ==
  \A p \in PayloadIds :
    \A i \in 1..Len(attempts[p]), j \in 1..Len(attempts[p]) :
      (i < j /\ attempts[p][i].replyToMessageId /\ attempts[p][i].failed
         /\ attempts[p][i].replyGone)
        => ~attempts[p][j].replyToMessageId

\* C9: the chunks of one sendFinalText call are sent in order, the first with the
\* call's mention list, every later one with neither reply-to reference nor
\* mention list.
C9_OnlyFirstChunkCarriesReplyToAndMentions ==
  \A p \in PayloadIds :
    LET m == answerMessages(p)
    IN \A k \in 1..Len(m) :
         /\ m[k].chunk = 1 \/ (k > 1 /\ m[k].chunk = m[k - 1].chunk + 1)
         /\ m[k].chunk <= answerChunks(p)
         /\ m[k].chunk = 1 => m[k].mentions = params.mentionTargets
         /\ m[k].chunk > 1 => ~m[k].replyToMessageId /\ ~m[k].mentions

\* a second chunk sent after a first chunk that carried the reply-to reference
C9_Witness ==
  \E k \in 2..Len(chat) :
    /\ chat[k].kind = "answer" /\ chat[k].chunk = 2
    /\ chat[k - 1].kind = "answer" /\ chat[k - 1].chunk = 1
    /\ chat[k - 1].payload = chat[k].payload
    /\ chat[k - 1].replyToMessageId /\ chat[k - 1].mentions

\* C10: the delay slept after the k-th failed queued attempt is baseDelayMs * k
\* (1200 ms * k unless configured), and nothing is slept after the last failed
\* attempt or after a successful one.
C10_DelayIsBaseTimesAttempt ==
  \A p \in PayloadIds :
    LET nf == Len(failedQueueAttempts(p))
        base == IF "retryDelay" \in DOMAIN retryCfg THEN retryCfg.retryDelay ELSE 1200
    IN /\ \A k \in 1..Len(sleeps[p]) : sleeps[p][k] = base * k
       /\ Len(sleeps[p]) = IF maxAttemptsNow >= 1 /\ nf >= maxAttemptsNow
                           THEN maxAttemptsNow - 1 ELSE nf

\* two delays slept by one delivery
C10_Witness ==
  \E p \in PayloadIds : Len(sleeps[p]) >= 2 /\ jobs[p].pc = "sleeping"

\* the payloads whose queued delivery changed in this step
jobsChanged == {p \in PayloadIds : jobs'[p] # jobs[p]}

\* C11: a step that enqueues, advances or finishes deliveries touches the
\* deliveries of one queue key only and leaves the entry of every other key in
\* finalTextDeliveryQueues as it was; a delivery waits only for a delivery of its
\* own key.
C11_KeysDoNotInterfere ==
  [][/\ \A p \in jobsChanged, q \in jobsChanged : payloads'[p].key = payloads'[q].key
     /\ \A k \in QueueKeys :
          finalTextDeliveryQueues'[k] # finalTextDeliveryQueues[k]
            => \E p \in jobsChanged : payloads'[p].key = k
     /\ \A p \in PayloadIds :
          jobs'[p].pc = "waiting"
            => /\ jobs'[p].previous # 0
               /\ payloads'[jobs'[p].previous].key = payloads'[p].key]_vars

\* a queued delivery of one key delivered while a delivery of the other key,
\* enqueued before it, is still retrying, its entry still in the map
C11_Witness ==
  \E i \in PayloadIds, j \in PayloadIds :
    /\ i < j
    /\ payloads[i].key # payloads[j].key
    /\ jobs[i].pc \in {"sending", "sleeping"}
    /\ finalTextDeliveryQueues[payloads[i].key] = i
    /\ jobs[j].pc = "done" /\ jobs[j].result = "delivered"

\* C12: with maxAttempts >= 1 and sends that return, every delivery enqueued is
\* sooner or later attempted (unless the model's send budget runs out first), and
\* one whose predecessor has finished, failed or not, is never left waiting.
C12_EnqueuedIsEventuallyAttempted ==
  /\ [](\A p \in PayloadIds :
          (jobs[p].pc = "waiting") =>
             (jobs[p].previous # 0 /\ jobs[jobs[p].previous].pc # "done"))
  /\ \A p \in PayloadIds :
       (Enqueued(p) /\ maxAttemptsNow >= 1) ~> (jobs[p].attempt >= 1 \/ ~maySend)

\* a delivery attempting after the delivery it was chained to exhausted its attempts
C12_Witness ==
  \E i \in PayloadIds, j \in PayloadIds :
    /\ jobs[j].previous = i
    /\ jobs[i].pc = "done" /\ jobs[i].result = "failed"
    /\ jobs[j].pc = "sending" /\ jobs[j].attempt >= 1

\* C27 as stated: when the retry loop runs (maxAttempts >= 1), a queued attempt
\* that carried the reply-to reference and failed with a reply-gone error is
\* followed, by the time the delivery has ended, by a queued attempt of the same
\* text without the reference.
C27_ReplyGoneIsFollowedByAFreshAttempt ==
  \A p \in PayloadIds :
    (jobs[p].pc = "done" /\ maxAttemptsNow >= 1)
      => \A i \in 1..Len(attempts[p]) :
           (attempts[p][i].via = "queue" /\ attempts[p][i].replyToMessageId
              /\ attempts[p][i].failed /\ attempts[p][i].replyGone)
             => \E j \in (i + 1)..Len(attempts[p]) :
                  attempts[p][j].via = "queue" /\ ~attempts[p][j].replyToMessageId

\* an error's text holds one of the retryable tokens
matchesRetryable(error, retryableErrors) ==
  \E token \in retryableErrors : Includes(error, token)

\* C29 as stated: a queued attempt that fails with an error matching none of the
\* configured retryable tokens ends the delivery as failed, and no further
\* attempt follows.
C29_NonRetryableErrorEndsTheDelivery ==
  [][\A p \in PayloadIds, error \in ErrorTexts :
       (JobSend(p, error)
          /\ ~matchesRetryable(error, getRetryConfig(retryCfg).retryableErrors))
         => (jobs'[p].pc = "done" /\ jobs'[p].result = "failed")]_vars

reasoningMessages(p) == SelectSeq(chat, LAMBDA m : m.kind = "reasoning" /\ m.payload = p)

\* C30 as stated: when the reasoning message of a payload was sent and deliver
\* has gone on to the answer, every chunk of the reasoning message is in the chat,
\* in chunk order, and only the first carries the mentions.
C30_EveryReasoningChunkIsSent ==
  \A p \in PayloadIds :
    LET m == reasoningMessages(p)
    IN (m # << >> /\ (p < delivered \/ dpc # "reasoning"))
         => /\ Len(m) = chunkCount(payloads[p].reasoningText, TextChunkLimit)
            /\ \A k \in 1..Len(m) :
                 /\ m[k].chunk = k
                 /\ m[k].mentions = (k = 1 /\ params.mentionTargets)

\* C31: a failed send of the reasoning message delivers nothing and enqueues
\* nothing, and deliver goes on to send the answer text of the payload when it
\* has one; the reasoning message is sent at most once per payload and no
\* queued delivery exists for a payload whose answer send did not fail; an answer
\* send that fails is queued.
C31_ReasoningFailureIsOnlyLogged ==
  [][/\ \A error \in ErrorTexts :
          DeliverReasoning(error)
            => /\ chat' = chat
               /\ jobs' = jobs
               /\ finalTextDeliveryQueues' = finalTextDeliveryQueues
               /\ attempts' = attempts
               /\ dpc' # "reasoning"
               /\ NonBlank(payloads[delivered].answerText)
                    => (dpc' = "answer" /\ dchunk' = 1)
     /\ \A error \in ErrorTexts :
          DeliverAnswer(error) => jobs'[delivered].pc # "none"
     /\ \A p \in PayloadIds :
          /\ Len(reasoningMessages(p))' <= 1
          /\ (jobs'[p].pc # "none")
               => \E i \in 1..Len(attempts'[p]) :
                    attempts'[p][i].via = "direct" /\ attempts'[p][i].failed]_vars

\* the one send of the reasoning message of the first payload failed, and its
\* answer is in the chat
C31_Witness ==
  /\ delivered = 1
  /\ NonBlank(payloads[1].reasoningText)
  /\ failures = 1
  /\ reasoningMessages(1) = << >>
  /\ answerMessages(1) # << >>
  /\ attempts[1] = << AttemptRecord("direct", params.replyToMessageId, NoError) >>

\* the deliveries enqueued under key k, and those of them not yet finished
enqueuedFor(k) == {p \in PayloadIds : jobs[p].pc # "none" /\ payloads[p].key = k}
unfinishedFor(k) == {p \in enqueuedFor(k) : jobs[p].pc # "done"}

\* C35: the queue map has an entry for a key exactly when a delivery enqueued
\* under the key has not finished, and the entry is the delivery enqueued last
\* under the key; an entry goes only when the delivery it refers to has finished;
\* the map is empty when every enqueued delivery has finished.
C35_EntryIsTheLastUnfinishedDelivery ==
  /\ [](\A k \in QueueKeys :
          /\ (finalTextDeliveryQueues[k] # 0) <=> (unfinishedFor(k) # {})
          /\ (finalTextDeliveryQueues[k] # 0)
               => /\ finalTextDeliveryQueues[k] \in enqueuedFor(k)
                  /\ \A p \in enqueuedFor(k) : p <= finalTextDeliveryQueues[k])
  /\ [](((\A p \in PayloadIds : jobs[p].pc \in {"none", "done"}))
          => finalTextDeliveryQueues = [k \in QueueKeys |-> 0])
  /\ [][\A k \in QueueKeys :
          (finalTextDeliveryQueues[k] # 0
             /\ finalTextDeliveryQueues'[k] # finalTextDeliveryQueues[k])
            => \/ /\ finalTextDeliveryQueues'[k] = 0
                  /\ jobs'[finalTextDeliveryQueues[k]].pc = "done"
               \/ /\ finalTextDeliveryQueues'[k] > finalTextDeliveryQueues[k]
                  /\ jobs[finalTextDeliveryQueues'[k]].pc = "none"]_vars

\* the first of two deliveries enqueued under one key has finished, and the entry
\* still refers to the second, which has not
C35_Witness ==
  \E k \in QueueKeys :
    /\ enqueuedFor(k) = {1, 2}
    /\ jobs[1].pc = "done"
    /\ jobs[2].pc \in {"sending", "sleeping"}
    /\ finalTextDeliveryQueues[k] = 2

\* C36 as stated: over the direct attempt and the queued attempts of one answer,
\* no chunk of the text is delivered to the chat more than once.
C36_EachChunkIsSentAtMostOnce ==
  \A p \in PayloadIds :
    \A i \in 1..Len(chat), j \in 1..Len(chat) :
      (/\ chat[i].kind = "answer" /\ chat[i].payload = p
       /\ chat[j].kind = "answer" /\ chat[j].payload = p
       /\ chat[i].chunk = chat[j].chunk)
        => i = j

\* C38 as stated: whatever maxRetries is configured, a queued delivery that has
\* ended has either delivered its text or reported its failure (the error line
\* and the onFailure call).
C38_QueuedDeliveryEndsDeliveredOrReported ==
  \A p \in PayloadIds :
    jobs[p].pc = "done"
      => \/ jobs[p].result = "delivered"
         \/ jobs[p].result = "failed" /\ notice[p].calls = 1

(***************************************************************************)
(* deliver with texts that are plain, one thinking block, a partial tag    *)
(* prefix, blank, empty or absent (specification SpecReasoning)            *)
(***************************************************************************)
ReasoningPayloads ==
  { [kind |-> "final", text |-> t] :
      t \in {TextOk, TextThinkOnly, TextPartial, TextBlank, << >>, Undefined} }
    \cup { [kind |-> "block", text |-> TextOk] }

NextReasoning ==
  \/ \E pl \in ReasoningPayloads, key \in QueueKeys : DeliverBegin(pl, key)
  \/ \E error \in SendOutcomes : DeliverReasoning(error)
  \/ \E error \in SendOutcomes : DeliverAnswer(error)
  \/ \E p \in PayloadIds, error \in SendOutcomes : JobSend(p, error)
  \/ \E p \in PayloadIds : JobWake(p)
  \/ \E p \in PayloadIds, error \in SendOutcomes : NoticeSend(p, error)

SpecReasoning == Init /\ [][NextReasoning]_vars

\* deliver is past the send of the reasoning message of payload p
reasoningDone(p) == p < delivered \/ (p = delivered /\ dpc # "reasoning")

\* deliver's last branch: no answer text and a reasoning text, the "only reasoning
\* delivered, no answer text found" warning is logged
onlyReasoningWarning(p) ==
  /\ payloads[p].kind = "final"
  /\ reasoningDone(p)
  /\ ~NonBlank(payloads[p].answerText)
  /\ NonBlank(payloads[p].reasoningText)

\* deliver with payloads that are not final or have no text, a plain final text
\* and a final text that is one thinking block (specification SpecEarly)
EarlyPayloads ==
  { [kind |-> "final", text |-> t] :
      t \in {TextOk, TextThinkOnly, TextBlank, << >>, Undefined} }
    \cup { [kind |-> "block", text |-> TextOk] }

NextEarly ==
  \/ \E pl \in EarlyPayloads, key \in QueueKeys : DeliverBegin(pl, key)
  \/ \E error \in SendOutcomes : DeliverReasoning(error)
  \/ \E error \in SendOutcomes : DeliverAnswer(error)
  \/ \E p \in PayloadIds, error \in SendOutcomes : JobSend(p, error)
  \/ \E p \in PayloadIds : JobWake(p)
  \/ \E p \in PayloadIds, error \in SendOutcomes : NoticeSend(p, error)

SpecEarly == Init /\ [][NextEarly]_vars

\* a payload that is not final, or whose text is absent, empty or white space
notFinalOrNoText(kind, text) ==
  kind # "final" \/ text = Undefined \/ \A i \in 1..Len(text) : IsSpace(text[i])

\* deliver was called with payload p, which is not final or has no text
returnedEarly(p) ==
  p <= delivered /\ notFinalOrNoText(payloads[p].kind, payloads[p].text)

\* C34: a deliver call with a payload that is not final, or whose text is absent,
\* empty or blank, ends at once; no message of that payload is ever in the chat,
\* no send of it is attempted, nothing is enqueued for it and no entry of the
\* queue map refers to it, and the call itself leaves the map as it was.
C34_OtherPayloadsDoNothing ==
  [][/\ \A pl \in EarlyPayloads, key \in QueueKeys :
          (DeliverBegin(pl, key) /\ notFinalOrNoText(pl.kind, pl.text))
            => /\ dpc' = "idle"
               /\ chat' = chat /\ failures' = failures
               /\ jobs' = jobs /\ attempts' = attempts
               /\ finalTextDeliveryQueues' = finalTextDeliveryQueues
     /\ \A p \in PayloadIds :
          returnedEarly(p)'
            => /\ \A i \in 1..Len(chat') : chat'[i].payload # p
               /\ attempts'[p] = << >>
               /\ jobs'[p] = NoJob
               /\ \A k \in QueueKeys : finalTextDeliveryQueues'[k] # p]_vars

\* a block payload and then a final payload with no text were delivered, and
\* nothing was sent
C34_Witness ==
  /\ delivered = 2
  /\ payloads[1].kind = "block"
  /\ payloads[2].kind = "final" /\ payloads[2].text = << >>
  /\ chat = << >> /\ failures = 0 /\ dpc = "idle"

\* C37 as stated: a deliver call with a final payload whose text is not blank goes
\* on to a send, of the reasoning message or of the answer; no such text is
\* dropped with nothing sent and nothing logged.
C37_NonBlankFinalTextIsAttempted ==
  [][\A pl \in ReasoningPayloads, key \in QueueKeys :
       (DeliverBegin(pl, key) /\ ~notFinalOrNoText(pl.kind, pl.text))
         => (dpc' \in {"reasoning", "answer"} \/ onlyReasoningWarning(delivered)')]_vars

\* C28 as stated: once deliver is past the reasoning message of a final text that
\* is one complete thinking block, the "only reasoning delivered" warning has
\* been logged.
C28_ThinkOnlyTextLogsTheWarning ==
  \A p \in PayloadIds :
    (payloads[p].text = TextThinkOnly /\ reasoningDone(p)) => onlyReasoningWarning(p)

(***************************************************************************)
(* The splitter applied to texts built from pieces                         *)
(***************************************************************************)
PieceOpenThink == << "<", "t", "h", "i", "n", "k", ">" >>
PieceCloseThink == << "<", "/", "t", "h", "i", "n", "k", ">" >>
PieceOpenAntUpper ==
  << "<", "A", "N", "T", "T", "H", "I", "N", "K", "I", "N", "G", ">" >>
PieceCloseThoughtMixed == << "<", "/", "T", "h", "o", "u", "g", "h", "t", ">" >>
PieceInternal == << "i", "n", "t", "e", "r", "n", "a", "l" >>
PieceFinalAnswer == << "f", "i", "n", "a", "l", " ", "a", "n", "s", "w", "e", "r" >>
PieceFence == << "backtick", "backtick", "backtick" >>
PiecePartialMixed == << "<", "T", "h", "i" >>
PieceSpace == << " " >>
PieceLess == << "<" >>
PieceThinkUpper == << "T", "H", "I", "N", "K" >>

\* the pieces the splitter's inputs are built from
SplitPieces ==
  << PieceOpenThink, PieceCloseThink, PieceOpenAntUpper, PieceCloseThoughtMixed,
     PieceInternal, PieceFinalAnswer, PieceFence, PiecePartialMixed, PieceSpace,
     PieceLess, PieceThinkUpper >>

OpenTagPieces == {1, 3}
CloseTagPieces == {2, 4}
PlainPieces == {5, 6}

InitSplit ==
  /\ NoSplitText
  /\ DispatcherIdle
  /\ TypingIdle
  /\ OrchestratorIdle
  /\ SkillsIdle

\* one more piece of input, split anew
SplitAppend(k) ==
  /\ Len(pieces) < MaxPieces
  /\ pieces' = Append(pieces, k)
  /\ splitText' = splitText \o SplitPieces[k]
  /\ splitResult' = splitFeishuReasoningText(splitText')
  /\ UNCHANGED << dispVars, typingVars, orchVars, skillVars >>

NextSplit == \E k \in 1..Len(SplitPieces) : SplitAppend(k)

SpecSplit == InitSplit /\ [][NextSplit]_vars

(***************************************************************************)
(* Claims about the splitter (specification SpecSplit)                     *)
(***************************************************************************)
NoSplit == [reasoningText |-> Undefined, answerText |-> Undefined]

\* C6: a text made of an opening thinking tag, a reasoning R, a closing tag and
\* an answer A, the tags in any recognized spelling and letter case, splits into
\* the reasoning prefix followed by trimmed R, and trimmed A.
C6_TaggedTextSplitsIntoReasoningAndAnswer ==
  (/\ Len(pieces) = 4
   /\ pieces[1] \in OpenTagPieces /\ pieces[2] \in PlainPieces
   /\ pieces[3] \in CloseTagPieces /\ pieces[4] \in PlainPieces)
    => /\ splitResult.reasoningText =
            REASONING_MESSAGE_PREFIX \o Trim(SplitPieces[pieces[2]])
       /\ splitResult.answerText = Trim(SplitPieces[pieces[4]])

\* t, lower-cased, is the beginning of one of "<think", "<thinking", "<thought",
\* "<antthinking"
IsBeginningOfTagPrefix(t) ==
  \E prefix \in REASONING_TAG_PREFIXES :
    /\ Len(t) <= Len(prefix)
    /\ \A i \in 1..Len(t) : ToLowerCase(t[i]) = prefix[i]

\* C7: a text that, trimmed, starts with "<", holds no ">" and is the beginning of
\* a thinking tag in any letter case is not split: neither a reasoning text nor an
\* answer text comes back.
C7_PartialTagPrefixIsNotSplit ==
  LET t == Trim(splitText)
  IN (t # << >> /\ t[1] = "<" /\ (\A i \in 1..Len(t) : t[i] # ">")
        /\ IsBeginningOfTagPrefix(t))
       => splitResult = NoSplit

\* "<THINK" between spaces, an unterminated opening tag in upper case, not split
C7_Witness ==
  /\ pieces = << 9, 10, 11, 9 >>
  /\ splitResult = NoSplit

\* the positions (from 0) of splitText where a thinking tag starts
tagStarts == {i \in 0..(Len(splitText) - 1) : ThinkingTagMatchAt(splitText, i).len > 0}

\* the position of splitText where its k-th piece starts
RECURSIVE PieceStart(_)
PieceStart(k) == IF k = 1 THEN 0 ELSE PieceStart(k - 1) + Len(SplitPieces[pieces[k - 1]])

\* the piece of splitText that holds position i
pieceAt(i) ==
  CHOOSE k \in 1..Len(pieces) :
    PieceStart(k) <= i /\ i < PieceStart(k) + Len(SplitPieces[pieces[k]])

FencePiece == CHOOSE k \in 1..Len(SplitPieces) : SplitPieces[k] = PieceFence

\* the k-th piece lies in a closed fenced block: an odd number of fences before
\* it, and a fence after it
inClosedFence(k) ==
  /\ Cardinality({j \in 1..(k - 1) : pieces[j] = FencePiece}) % 2 = 1
  /\ \E j \in (k + 1)..Len(pieces) : pieces[j] = FencePiece

C33_AnswerTextHoldsNoThinkingTag ==
  LET answer == splitResult.answerText
  IN NonBlank(answer)
       => \A i \in 0..(Len(answer) - 1) :
            ThinkingTagMatchAt(answer, i).len > 0
              => isInsideCode(i, findCodeRegions(answer))



(***************************************************************************)
(* The typing indicator (specification SpecTyping)                         *)
(*                                                                         *)
(* onReplyStart calls the start callback without awaiting it; onIdle and   *)
(* onError call the stop callback.  A step is one event-loop task: the     *)
(* callback up to its await, or the continuation after the awaited call.   *)
(***************************************************************************)
MaxReplyStarts == 2
Indicators == 1..MaxReplyStarts

\* the stop callback up to its await: nothing when typingState is null, else
\* removeTypingIndicator is called with the state typingState refers to
stopCalled(state, inFlight) == IF state = 0 THEN inFlight ELSE inFlight \cup {state}

\* onReplyStart: void typingCallbacks.onReplyStart(); the start callback returns
\* at once without a replyToMessageId, else calls addTypingIndicator and awaits
OnReplyStart ==
  /\ ~hostIdle
  /\ replyStarts < MaxReplyStarts
  /\ replyStarts' = replyStarts + 1
  /\ adding' = IF params.replyToMessageId THEN adding \cup {replyStarts'} ELSE adding
  /\ UNCHANGED << typingState, removing, held, hostIdle, cleaned, typingLog >>
  /\ UNCHANGED << splitVars, dispVars, orchVars, skillVars >>

\* addTypingIndicator settles: typingState = await ..., or onStartError logs
AddTypingIndicatorDone(h, ok) ==
  /\ h \in adding
  /\ adding' = adding \ {h}
  /\ IF ok
       THEN /\ held' = held \cup {h}
            /\ typingState' = h
            /\ UNCHANGED typingLog
       ELSE /\ typingLog' = [typingLog EXCEPT !.start = @ + 1]
            /\ UNCHANGED << held, typingState >>
  /\ UNCHANGED << replyStarts, removing, hostIdle, cleaned >>
  /\ UNCHANGED << splitVars, dispVars, orchVars, skillVars >>

\* onIdle: typingCallbacks.onIdle(), which calls the stop callback
OnIdle ==
  /\ ~hostIdle
  /\ hostIdle' = TRUE
  /\ removing' = stopCalled(typingState, removing)
  /\ UNCHANGED << typingState, replyStarts, adding, held, cleaned, typingLog >>
  /\ UNCHANGED << splitVars, dispVars, orchVars, skillVars >>

\* onError: the error is reported to runtime.error, then typingCallbacks.onIdle()
OnError ==
  /\ ~hostIdle
  /\ hostIdle' = TRUE
  /\ removing' = stopCalled(typingState, removing)
  /\ UNCHANGED << typingState, replyStarts, adding, held, cleaned, typingLog >>
  /\ UNCHANGED << splitVars, dispVars, orchVars, skillVars >>

\* onCleanup: typingCallbacks.onCleanup?.(), which the callbacks object may not
\* have, and which calls the stop callback when it has
OnCleanup(stops) ==
  /\ ~cleaned
  /\ cleaned' = TRUE
  /\ removing' = IF stops THEN stopCalled(typingState, removing) ELSE removing
  /\ UNCHANGED << typingState, replyStarts, adding, held, hostIdle, typingLog >>
  /\ UNCHANGED << splitVars, dispVars, orchVars, skillVars >>

\* removeTypingIndicator settles: typingState = null, or onStopError logs
RemoveTypingIndicatorDone(h, ok) ==
  /\ h \in removing
  /\ removing' = removing \ {h}
  /\ IF ok
       THEN /\ held' = held \ {h}
            /\ typingState' = 0
            /\ UNCHANGED typingLog
       ELSE /\ typingLog' = [typingLog EXCEPT !.stop = @ + 1]
            /\ UNCHANGED << held, typingState >>
  /\ UNCHANGED << replyStarts, adding, hostIdle, cleaned >>
  /\ UNCHANGED << splitVars, dispVars, orchVars, skillVars >>

InitTyping ==
  /\ NoSplitText
  /\ retryCfg = [x \in {} |-> 0]
  /\ params \in DispatcherParams
  /\ NoDeliveries
  /\ TypingIdle
  /\ OrchestratorIdle
  /\ SkillsIdle

NextTyping ==
  \/ OnReplyStart
  \/ \E h \in Indicators, ok \in BOOLEAN : AddTypingIndicatorDone(h, ok)
  \/ OnIdle
  \/ OnError
  \/ \E stops \in BOOLEAN : OnCleanup(stops)
  \/ \E h \in Indicators, ok \in BOOLEAN : RemoveTypingIndicatorDone(h, ok)

SpecTyping == InitTyping /\ [][NextTyping]_vars

\* C8: once the host has reported idle or an error and cleaned up, and every
\* addTypingIndicator and removeTypingIndicator call has settled with no stop
\* failure, no typing indicator is held, however the start callback interleaved
\* with the stop callback.
C8_NoIndicatorHeldAfterIdle ==
  (/\ params.replyToMessageId
   /\ hostIdle /\ cleaned
   /\ adding = {} /\ removing = {}
   /\ typingLog.stop = 0)
    => held = {}

(***************************************************************************)
(* The task board (specification SpecBoard)                                *)
(*                                                                         *)
(* The router maps a command to an intent; a mutating intent appends one   *)
(* event to the event stream and applies it to the snapshot.  The scripts  *)
(* of the board engine are described by the plugin's documents.            *)
(***************************************************************************)
\* pending -> claimed -> in_progress -> (review | done | blocked); blocked and
\* review may return to in_progress
ProtocolTransitions ==
  { << "pending", "claimed" >>, << "claimed", "in_progress" >>,
    << "in_progress", "review" >>, << "in_progress", "done" >>,
    << "in_progress", "blocked" >>, << "blocked", "in_progress" >>,
    << "review", "in_progress" >> }

\* the statuses in which a task may be turned to blocked
BlockableStatuses == {"claimed", "in_progress", "review"}

\* strict status transitions
legalTransition(from, to) ==
  \/ << from, to >> \in ProtocolTransitions
  \/ to = "blocked" /\ from \in BlockableStatuses

EventTypes ==
  {"create_task", "claim_task", "dispatch_task", "mark_done", "block_task",
   "escalate_task"}

\* an event of the stream
Event(eventId, type, taskId, evidence, reasonCode, acceptanceReasonCode, diagTaskId) ==
  [eventId |-> eventId, type |-> type, taskId |-> taskId, evidence |-> evidence,
   reasonCode |-> reasonCode, acceptanceReasonCode |-> acceptanceReasonCode,
   diagTaskId |-> diagTaskId]

\* the status an event of this type gives its task
targetStatus(type) ==
  CASE type = "create_task" -> "pending"
    [] type = "claim_task" -> "claimed"
    [] type = "dispatch_task" -> "in_progress"
    [] type = "mark_done" -> "done"
    [] type = "block_task" -> "blocked"
    [] type = "escalate_task" -> "blocked"
    [] OTHER -> "none"

\* the reducer's validation: known event type, the task is there for every event
\* but a creation, and the transition is legal from the task's status; escalate
\* blocks the task whatever its status
validEvent(ts, ev) ==
  /\ ev.type \in EventTypes
  /\ ev.taskId \in TaskIds
  /\ IF ev.type = "create_task"
     THEN ts[ev.taskId].status = "none"
     ELSE /\ ts[ev.taskId].status # "none"
          /\ IF ev.type = "escalate_task"
             THEN /\ ev.diagTaskId \in TaskIds
                  /\ ev.diagTaskId # ev.taskId
                  /\ ts[ev.diagTaskId].status = "none"
             ELSE legalTransition(ts[ev.taskId].status, targetStatus(ev.type))

\* the task an event creates
createdTask(ev, assigneeHint, relatedTo) ==
  [NoTask EXCEPT !.status = "pending", !.assigneeHint = assigneeHint,
                 !.relatedTo = relatedTo, !.history = << ev.eventId >>]

\* the task after an event that changes its status
transitionedTask(task, ev) ==
  [task EXCEPT !.status = targetStatus(ev.type),
               !.evidence = IF ev.type = "mark_done" THEN ev.evidence ELSE @,
               !.reasonCode = ev.reasonCode,
               !.acceptanceReasonCode = ev.acceptanceReasonCode,
               !.history = Append(@, ev.eventId)]

\* escalate with its follow-up task not related to the task it was raised for
escalatedTasks_Unrelated(ts, ev) ==
  [ts EXCEPT ![ev.taskId] = transitionedTask(@, ev),
             ![ev.diagTaskId] = createdTask(ev, "debugger", 0)]

\* escalate task: the task is blocked, and a diagnostic follow-up task is created
\* with assigneeHint=debugger and relatedTo=<the task>
escalatedTasks(ts, ev) ==
  [ts EXCEPT ![ev.taskId] = transitionedTask(@, ev),
             ![ev.diagTaskId] = createdTask(ev, "debugger", ev.taskId)]

\* the reducer applied to a valid event
applyEvent(ts, ev) ==
  CASE ev.type = "create_task" ->
         [ts EXCEPT ![ev.taskId] = createdTask(ev, "none", 0)]
    [] ev.type = "escalate_task" -> escalatedTasks(ts, ev)
    [] OTHER -> [ts EXCEPT ![ev.taskId] = transitionedTask(@, ev)]

\* rebuild-snapshot: the events of the stream replayed in order through the
\* validating reducer, an event with a duplicate eventId or failing the validation
\* being counted as an error and skipped
RECURSIVE replayFrom(_, _, _, _)
replayFrom(log, i, ts, seen) ==
  IF i > Len(log)
  THEN ts
  ELSE LET ev == log[i]
       IN IF ev.eventId \in seen \/ ~validEvent(ts, ev)
          THEN replayFrom(log, i + 1, ts, seen)
          ELSE replayFrom(log, i + 1, applyEvent(ts, ev), seen \cup {ev.eventId})

rebuildSnapshot(log) == replayFrom(log, 1, [t \in TaskIds |-> NoTask], {})

\* the id of the next event of the stream, and of the next task of the board
nextEventId == Len(eventLog) + 1
nextTaskId == Cardinality({t \in TaskIds : tasks[t].status # "none"}) + 1
logHasRoom(n) == Len(eventLog) + n <= MaxEvents

\* the idempotent hint for a task already done: "[DONE] T-xxx" followed by the
\* Chinese for "already done, no need to run again"
AlreadyDoneText == "[DONE] already done, no need to run again"

Answer(kind, t) ==
  [kind |-> kind, taskId |-> t,
   text |-> IF kind = "already_done" THEN AlreadyDoneText ELSE kind]

\* a command that changes nothing but the router's answer
answered(kind, t) ==
  [tasks |-> tasks, eventLog |-> eventLog, response |-> Answer(kind, t)]

\* the event applied to the board without being appended to the stream
recorded_NotLogged(ev, kind) ==
  IF validEvent(tasks, ev)
  THEN [tasks |-> applyEvent(tasks, ev), eventLog |-> eventLog,
        response |-> Answer(kind, ev.taskId)]
  ELSE answered("rejected", ev.taskId)

\* a mutating intent: the event is validated, appended to the stream and applied
\* to the snapshot; an invalid one is refused and changes nothing
recorded(ev, kind) ==
  IF validEvent(tasks, ev)
  THEN [tasks |-> applyEvent(tasks, ev), eventLog |-> Append(eventLog, ev),
        response |-> Answer(kind, ev.taskId)]
  ELSE answered("rejected", ev.taskId)

\* the acceptance gate passing a done report that carries no evidence
acceptanceEvent_NoGate(t, evidence) ==
  Event(nextEventId, "mark_done", t, evidence, "none", "none", 0)

\* the acceptance policy gate on a done transition: a report without hard
\* evidence is converted into blocked; spawn.reasonCode stays incomplete_output and
\* spawn.acceptanceReasonCode carries missing_hard_evidence
acceptanceEvent(t, evidence) ==
  IF evidence
  THEN Event(nextEventId, "mark_done", t, TRUE, "none", "none", 0)
  ELSE Event(nextEventId, "block_task", t, FALSE, "incomplete_output",
             "missing_hard_evidence", 0)

\* a done task re-asked: the board is written again all the same
alreadyDone_Rewritten(t) ==
  [tasks |-> [tasks EXCEPT ![t].history = Append(@, nextEventId)],
   eventLog |-> eventLog, response |-> Answer("already_done", t)]

\* a done task re-asked: the idempotent hint, and no change of status
alreadyDone(t) == answered("already_done", t)

\* mark done <task-id>: <result>
mark_done(t, evidence) ==
  IF tasks[t].status = "done"
  THEN alreadyDone(t)
  ELSE IF ~legalTransition(tasks[t].status, "done")
  THEN answered("rejected", t)
  ELSE recorded(acceptanceEvent(t, evidence), IF evidence THEN "done" ELSE "blocked")

\* block task <task-id>: <reason>
block_task(t, reasonCode) ==
  recorded(Event(nextEventId, "block_task", t, FALSE, reasonCode, "none", 0), "blocked")

\* @orchestrator run <taskId>: claim and dispatch, never a completion by itself; a
\* task already done gets the idempotent hint
run(t) ==
  LET status == tasks[t].status
      claim == Event(nextEventId, "claim_task", t, FALSE, "none", "none", 0)
      dispatch == Event(nextEventId, "dispatch_task", t, FALSE, "none", "none", 0)
      dispatchAfterClaim ==
        Event(nextEventId + 1, "dispatch_task", t, FALSE, "none", "none", 0)
  IN CASE status = "done" -> alreadyDone(t)
       [] status = "pending" ->
            [tasks |-> applyEvent(applyEvent(tasks, claim), dispatchAfterClaim),
             eventLog |-> eventLog \o << claim, dispatchAfterClaim >>,
             response |-> Answer("dispatched", t)]
       [] status = "in_progress" -> answered("dispatched", t)
       [] OTHER -> recorded(dispatch, "dispatched")

\* the spawn of a dispatched task failed: the task is turned to blocked only in
\* the allowed statuses, so that a done task is never blocked
spawn_failed(t) ==
  IF tasks[t].status \in BlockableStatuses
  THEN block_task(t, "spawn_failed")
  ELSE answered("spawn_failed", t)

\* the outcome of a command becomes the board
Routed(outcome) ==
  /\ Len(outcome.eventLog) <= MaxEvents
  /\ tasks' = outcome.tasks
  /\ eventLog' = outcome.eventLog
  /\ response' = outcome.response
  /\ UNCHANGED << splitVars, dispVars, typingVars, skillVars, lockVars, budgetVars, recoveryVars >>

\* create task: <title>
CreateTask ==
  /\ nextTaskId <= MaxTasks
  /\ Routed(recorded(Event(nextEventId, "create_task", nextTaskId, FALSE,
                           "none", "none", 0), "created"))

\* claim task <task-id>
ClaimTask(t) ==
  Routed(recorded(Event(nextEventId, "claim_task", t, FALSE, "none", "none", 0),
                  "claimed"))

\* mark done <task-id>: <result>
MarkDone(t, evidence) == Routed(mark_done(t, evidence))

\* block task <task-id>: <reason>
BlockTask(t) == Routed(block_task(t, "blocked_signal"))

\* escalate task <task-id>: <reason>
EscalateTask(t) ==
  /\ nextTaskId <= MaxTasks
  /\ Routed(recorded(Event(nextEventId, "escalate_task", t, FALSE, "escalated",
                           "none", nextTaskId), "escalated"))

\* @orchestrator run <taskId>
RunTask(t) == Routed(run(t))

\* a dispatch whose spawn failed
SpawnFailed(t) == Routed(spawn_failed(t))

\* wake-up: a team member reports completion or a blocker with @orchestrator
WorkerReport(t, status, evidence) ==
  Routed(IF status = "done" THEN mark_done(t, evidence)
         ELSE block_task(t, "blocked_signal"))

InitBoard ==
  /\ NoSplitText
  /\ DispatcherIdle
  /\ TypingIdle
  /\ OrchestratorIdle
  /\ SkillsIdle

NextBoard ==
  \/ CreateTask
  \/ \E t \in TaskIds : ClaimTask(t)
  \/ \E t \in TaskIds, evidence \in BOOLEAN : MarkDone(t, evidence)
  \/ \E t \in TaskIds : BlockTask(t)
  \/ \E t \in TaskIds : EscalateTask(t)
  \/ \E t \in TaskIds : RunTask(t)
  \/ \E t \in TaskIds : SpawnFailed(t)
  \/ \E t \in TaskIds, status \in {"done", "blocked"}, evidence \in BOOLEAN :
       WorkerReport(t, status, evidence)

SpecBoard == InitBoard /\ [][NextBoard]_vars

(***************************************************************************)
(* Claims about the task board (specification SpecBoard)                   *)
(***************************************************************************)
\* C13: every change of a task's status, whatever command caused it (escalate,
\* the acceptance gate, a failed spawn included), is one of pending->claimed,
\* claimed->in_progress, in_progress->review|done|blocked, blocked->in_progress,
\* review->in_progress; the status of a done task never changes.
C13_StatusChangesFollowTheTable ==
  [][\A t \in TaskIds :
       (tasks[t].status # "none" /\ tasks'[t].status # tasks[t].status)
         => << tasks[t].status, tasks'[t].status >> \in ProtocolTransitions]_vars

\* C14: mark done (by command or by report) and run applied to a task that is done
\* leave the task map and the event stream as they are and answer with the
\* already-done text, every time.
C14_ReaskOfDoneTaskChangesNothing ==
  [][\A t \in TaskIds :
       (/\ tasks[t].status = "done"
        /\ \/ \E evidence \in BOOLEAN : MarkDone(t, evidence)
           \/ \E evidence \in BOOLEAN : WorkerReport(t, "done", evidence)
           \/ RunTask(t))
         => /\ tasks' = tasks
            /\ eventLog' = eventLog
            /\ response'.kind = "already_done"
            /\ response'.text = AlreadyDoneText]_vars

\* a done task, re-asked, with only the event of its completion in its history
C14_Witness ==
  \E t \in TaskIds :
    /\ tasks[t].status = "done"
    /\ response = Answer("already_done", t)
    /\ eventLog[Len(eventLog)].type = "mark_done"
    /\ eventLog[Len(eventLog)].taskId = t

\* C15: escalate task applied to a task of the board blocks that task and creates
\* exactly one task, pending, with assigneeHint debugger and relatedTo the task;
\* every other task stays as it is.
C15_EscalateBlocksAndCreatesOneDiagnosticTask ==
  [][\A t \in TaskIds :
       (tasks[t].status # "none" /\ EscalateTask(t))
         => /\ tasks'[t].status = "blocked"
            /\ \E d \in TaskIds \ {t} :
                 /\ tasks[d].status = "none"
                 /\ tasks'[d].status = "pending"
                 /\ tasks'[d].assigneeHint = "debugger"
                 /\ tasks'[d].relatedTo = t
                 /\ \A o \in TaskIds \ {t, d} : tasks'[o] = tasks[o]]_vars

\* a task escalated beside another task of the board
C15_Witness ==
  \E t \in TaskIds, d \in TaskIds, o \in TaskIds :
    /\ response = Answer("escalated", t)
    /\ tasks[t].status = "blocked"
    /\ tasks[d].relatedTo = t /\ tasks[d].assigneeHint = "debugger"
    /\ o \notin {t, d} /\ tasks[o].status = "pending"

stale(lock) == lock.held /\ now > lock.expiresAt + GraceWindow /\ ~lock.ownerAlive

\* every held lock is removed, whether or not --force was given
reclaimable_WithoutForce(lock, force) == lock.held

\* a lock that is not stale is removed only when --force is used
reclaimable(lock, force) == stale(lock) \/ (lock.held /\ force)

\* the locks one run of recover-stale-locks removes: none in a dry run
reclaimed(apply, force) ==
  IF apply THEN {l \in LockIds : reclaimable(locks[l], force)} ELSE {}

\* every reclaimed lock is logged with the timestamp and the old owner
auditRecords(ls) ==
  LET ids == SelectSeq([l \in 1..MaxLocks |-> l], LAMBDA l : l \in ls)
  IN [i \in 1..Len(ids) |-> [lock |-> ids[i], at |-> now]]

\* a process takes a free lock for the time to live
AcquireLock(l) ==
  /\ ~locks[l].held
  /\ locks' = [locks EXCEPT ![l] = [held |-> TRUE, ownerAlive |-> TRUE,
                                    expiresAt |-> now + LockTtl]]
  /\ UNCHANGED << now, audit, splitVars, dispVars, typingVars, skillVars, boardVars, budgetVars,
                  recoveryVars >>

\* the owner removes its lock
ReleaseLock(l) ==
  /\ locks[l].held /\ locks[l].ownerAlive
  /\ locks' = [locks EXCEPT ![l] = NoLock]
  /\ UNCHANGED << now, audit, splitVars, dispVars, typingVars, skillVars, boardVars, budgetVars,
                  recoveryVars >>

\* the owner process dies with its lock in place
OwnerDies(l) ==
  /\ locks[l].held /\ locks[l].ownerAlive
  /\ locks' = [locks EXCEPT ![l].ownerAlive = FALSE]
  /\ UNCHANGED << now, audit, splitVars, dispVars, typingVars, skillVars, boardVars, budgetVars,
                  recoveryVars >>

Tick ==
  /\ now < MaxTime
  /\ now' = now + 1
  /\ UNCHANGED << locks, audit, splitVars, dispVars, typingVars, skillVars, boardVars, budgetVars,
                  recoveryVars >>

\* scripts/recover-stale-locks [--apply] [--force]
RecoverStaleLocks(apply, force) ==
  LET ls == reclaimed(apply, force)
  IN /\ Len(audit) + Cardinality(ls) <= MaxAudit
     /\ locks' = [l \in LockIds |-> IF l \in ls THEN NoLock ELSE locks[l]]
     /\ audit' = audit \o auditRecords(ls)
     /\ UNCHANGED << now, splitVars, dispVars, typingVars, skillVars, boardVars, budgetVars,
                  recoveryVars >>

InitLocks ==
  /\ NoSplitText
  /\ DispatcherIdle
  /\ TypingIdle
  /\ OrchestratorIdle
  /\ SkillsIdle

NextLocks ==
  \/ \E l \in LockIds : AcquireLock(l)
  \/ \E l \in LockIds : ReleaseLock(l)
  \/ \E l \in LockIds : OwnerDies(l)
  \/ Tick
  \/ \E apply \in BOOLEAN, force \in BOOLEAN : RecoverStaleLocks(apply, force)

SpecLocks == InitLocks /\ [][NextLocks]_vars

auditedSince(l) ==
  {i \in (Len(audit) + 1)..Len(audit') : audit'[i].lock = l}

maxTaskTokens == 12000
maxTaskWallTimeSec == 1200
maxTaskRetries == 3

\* the token usage and the elapsed time one spawn may report
SpawnTokens == {1000, 6000, 7000}
SpawnElapsedMs == {100000, 700000}

\* the limits a usage has gone over
exceededKeys(b) ==
  {k \in {"maxTaskTokens"} : b.tokenUsage > maxTaskTokens}
    \cup {k \in {"maxTaskWallTimeSec"} : b.elapsedMs > maxTaskWallTimeSec * 1000}
    \cup {k \in {"maxTaskRetries"} : b.retryCount > maxTaskRetries}

\* a precheck that looks at the retries only
budgetExhausted_RetriesOnly(b) == b.retryCount >= maxTaskRetries

\* precheck_budget: the budget is used up
budgetExhausted(b) ==
  \/ b.tokenUsage >= maxTaskTokens
  \/ b.elapsedMs >= maxTaskWallTimeSec * 1000
  \/ b.retryCount >= maxTaskRetries

\* over budget: reasonCode=budget_exceeded, nextAssignee=human, action=escalate
budgetExceeded(key, spawned, keys) ==
  [key |-> key, spawned |-> spawned, action |-> "escalate",
   reasonCode |-> "budget_exceeded", nextAssignee |-> "human", exceededKeys |-> keys]

\* record_and_check_budget: token, time and retry are accumulated, then compared
\* with the limits
record_and_check_budget(key, tokens, elapsedMs) ==
  LET b == [tokenUsage |-> budget[key].tokenUsage + tokens,
            elapsedMs |-> budget[key].elapsedMs + elapsedMs,
            retryCount |-> budget[key].retryCount + 1]
  IN [budget |-> [budget EXCEPT ![key] = b],
      check |-> IF exceededKeys(b) # {}
                THEN budgetExceeded(key, TRUE, exceededKeys(b))
                ELSE [NoBudgetCheck EXCEPT !.key = key, !.spawned = TRUE]]

\* a dispatch of the task to the agent: precheck_budget before the spawn, which a
\* used-up budget blocks; record_and_check_budget after the spawn
DispatchSpawn(key, tokens, elapsedMs) ==
  LET out == IF budgetExhausted(budget[key])
             THEN [budget |-> budget,
                   check |-> budgetExceeded(key, FALSE, exceededKeys(budget[key]))]
             ELSE record_and_check_budget(key, tokens, elapsedMs)
  IN /\ budget' = out.budget
     /\ budgetCheck' = out.check
     /\ UNCHANGED << splitVars, dispVars, typingVars, skillVars, boardVars, lockVars, recoveryVars >>

InitBudget ==
  /\ NoSplitText
  /\ DispatcherIdle
  /\ TypingIdle
  /\ OrchestratorIdle
  /\ SkillsIdle

NextBudget ==
  \E key \in BudgetKeys, tokens \in SpawnTokens, elapsedMs \in SpawnElapsedMs :
    DispatchSpawn(key, tokens, elapsedMs)

SpecBudget == InitBudget /\ [][NextBudget]_vars

overCap(b) ==
  \/ b.tokenUsage > maxTaskTokens
  \/ b.elapsedMs > maxTaskWallTimeSec * 1000
  \/ b.retryCount > maxTaskRetries

escalatedToHuman(check) ==
  /\ check.action = "escalate"
  /\ check.reasonCode = "budget_exceeded"
  /\ check.nextAssignee = "human"

\* C19: for a task and an agent whose recorded token usage, wall time or retry
\* count is over its limit, every budget check answers action=escalate,
\* reasonCode=budget_exceeded, nextAssignee=human: the check that records the
\* excess, and every later dispatch, which the precheck rejects without a spawn and
\* without a change of the recorded usage.
C19_OverBudgetAlwaysEscalatesToHuman ==
  [][\A key \in BudgetKeys, tokens \in SpawnTokens, elapsedMs \in SpawnElapsedMs :
       DispatchSpawn(key, tokens, elapsedMs)
         => /\ overCap(budget'[key]) => escalatedToHuman(budgetCheck')
            /\ overCap(budget[key])
                 => (~budgetCheck'.spawned /\ budget' = budget)]_vars

\* a dispatch rejected by the precheck for a usage of 13000 tokens
C19_Witness ==
  /\ budgetCheck.key \in BudgetKeys
  /\ budget[budgetCheck.key].tokenUsage = 13000
  /\ ~budgetCheck.spawned
  /\ escalatedToHuman(budgetCheck)

(***************************************************************************)
(* Failure recovery and escalation loop (specification SpecRecovery)       *)
(***************************************************************************)
\* the default recovery chain
RecoveryChain == << "coder", "debugger", "invest-analyst", "human" >>

\* the cooldown never counted as active
cooldownActive_Never(s) == FALSE

\* the cooldown of the previous decision has not expired
cooldownActive(s) == s.attempt > 0 /\ now < s.cooldownUntilTs

\* the decision for one more attempt: the next hop of the chain and the attempt
\* count while the failure is recoverable, escalated_to_human over the budget of
\* attempts
nextAttempt(s) ==
  LET attempt == s.attempt + 1
      hop == IF attempt > RecoveryMaxAttempts \/ attempt > Len(RecoveryChain)
             THEN "human"
             ELSE RecoveryChain[attempt]
  IN [attempt |-> attempt,
      nextAssignee |-> hop,
      action |-> CASE hop = "human" -> "human"
                   [] hop = RecoveryChain[1] -> "retry"
                   [] OTHER -> "escalate",
      recoveryState |-> IF hop = "human" THEN "escalated_to_human"
                        ELSE "recovery_pending",
      cooldownUntilTs |-> now + CooldownSec]

\* a dispatch failure classified with a supported reason code: the previous
\* decision is reused while the cooldown is active, without a new attempt
ClassifyFailure(key) ==
  LET s == recovery[key]
  IN /\ s.attempt <= RecoveryMaxAttempts + 1
     /\ IF cooldownActive(s)
        THEN /\ decision' = [key |-> key, cooldownActive |-> TRUE, state |-> s]
             /\ UNCHANGED recovery
        ELSE /\ recovery' = [recovery EXCEPT ![key] = nextAttempt(s)]
             /\ decision' = [key |-> key, cooldownActive |-> FALSE,
                             state |-> nextAttempt(s)]
     /\ UNCHANGED << splitVars, dispVars, typingVars, skillVars, boardVars, lockVars,
                     budgetVars >>

InitRecovery ==
  /\ NoSplitText
  /\ DispatcherIdle
  /\ TypingIdle
  /\ OrchestratorIdle
  /\ SkillsIdle

NextRecovery ==
  \/ \E key \in RecoveryKeys : ClassifyFailure(key)
  \/ Tick

SpecRecovery == InitRecovery /\ [][NextRecovery]_vars

chainIndex(assignee) ==
  IF assignee = "none" THEN 0
  ELSE CHOOSE i \in 1..Len(RecoveryChain) : RecoveryChain[i] = assignee

maxConcurrent == 2
maxAttemptsTotal == 3
RetryDelays == << 2, 4, 8 >>

\* what a sub-agent session ends with: a result, a result that contains
\* "Connection error." or "No reply from agent.", or the 120s timeout
SessionResults == {"ok", "connection_failure", "timeout"}

activeSessions == {i \in SubtaskIds : subtasks[i].status = "active"}

\* a spawn whatever the number of sessions in flight
maySpawn_NoCap(active) == TRUE

\* don't spawn more than 2 at once
maySpawn(active) == Cardinality(active) < maxConcurrent

\* one attempt too many before the subtask is given up
mayRetry_OneMore(made) == made <= maxAttemptsTotal

\* max 3 attempts total
mayRetry(made) == made < maxAttemptsTotal

coreVars == << splitVars, dispVars, typingVars, orchVars >>

\* Decompose: the request is broken into n independent subtasks
Decompose(n) ==
  /\ \A i \in SubtaskIds : subtasks[i].status = "none"
  /\ subtasks' = [i \in SubtaskIds |->
                    IF i <= n THEN [NoSubtask EXCEPT !.status = "pending"]
                    ELSE NoSubtask]
  /\ UNCHANGED << synthesized, coreVars, refineVars, teamVars, marketVars, pluginVars >>

\* sessions_spawn for the next pending subtask, first launch or retry
Spawn(i) ==
  /\ subtasks[i].status = "pending"
  /\ \A j \in 1..(i - 1) : subtasks[j].attempts > 0
  /\ maySpawn(activeSessions)
  /\ subtasks' = [subtasks EXCEPT ![i].status = "active", ![i].attempts = @ + 1]
  /\ UNCHANGED << synthesized, coreVars, refineVars, teamVars, marketVars, pluginVars >>

\* a session ends: a connection failure is retried after the next delay of the
\* backoff, or the subtask is marked failed after the last attempt; a timeout is
\* a gap in the results
Finish(i, result) ==
  /\ subtasks[i].status = "active"
  /\ subtasks' = [subtasks EXCEPT ![i] =
       CASE result = "ok" -> [@ EXCEPT !.status = "done"]
         [] result = "timeout" -> [@ EXCEPT !.status = "timed_out"]
         [] OTHER ->
              IF mayRetry(@.attempts)
              THEN [@ EXCEPT !.status = "backoff",
                             !.delays = Append(@, RetryDelays[Len(@) + 1])]
              ELSE [@ EXCEPT !.status = "failed"]]
  /\ UNCHANGED << synthesized, coreVars, refineVars, teamVars, marketVars, pluginVars >>

\* the retry delay has passed: the subtask is pending again
DelayElapsed(i) ==
  /\ subtasks[i].status = "backoff"
  /\ subtasks' = [subtasks EXCEPT ![i].status = "pending"]
  /\ UNCHANGED << synthesized, coreVars, refineVars, teamVars, marketVars, pluginVars >>

\* Collect & Synthesize: every sub-agent has completed, failed or timed out
Synthesize ==
  /\ ~synthesized
  /\ \E i \in SubtaskIds : subtasks[i].status # "none"
  /\ \A i \in SubtaskIds : subtasks[i].status \in {"none", "done", "failed", "timed_out"}
  /\ synthesized' = TRUE
  /\ UNCHANGED << subtasks, coreVars, refineVars, teamVars, marketVars, pluginVars >>

CoreIdle ==
  /\ NoSplitText
  /\ DispatcherIdle
  /\ TypingIdle
  /\ OrchestratorIdle

InitFanout == CoreIdle /\ SkillsIdle

NextFanout ==
  \/ \E n \in MinSubtasks..MaxSubtasks : Decompose(n)
  \/ \E i \in SubtaskIds : Spawn(i)
  \/ \E i \in SubtaskIds, result \in SessionResults : Finish(i, result)
  \/ \E i \in SubtaskIds : DelayElapsed(i)
  \/ Synthesize

SpecFanout == InitFanout /\ [][NextFanout]_vars

\* sessions end (by result or by timeout), delays pass, and the main agent takes
\* its next step
SpecFanoutFair == SpecFanout /\ WF_vars(NextFanout)

\* C21: during a fan-out of 2 to 5 subtasks, retries included, at most 2
\* sub-agent sessions are active at the same time.
C21_AtMostTwoSessionsActive ==
  Cardinality({i \in SubtaskIds : subtasks[i].status = "active"}) <= 2

\* five subtasks, two sessions active, one of them a retry, a subtask waiting
C21_Witness ==
  /\ \A i \in SubtaskIds : subtasks[i].status # "none"
  /\ Cardinality({i \in SubtaskIds : subtasks[i].status = "active"}) = 2
  /\ \E i \in SubtaskIds : subtasks[i].status = "active" /\ subtasks[i].attempts > 1
  /\ \E i \in SubtaskIds : subtasks[i].status = "pending"

mayClose_ShutdownForgotten(teammates) == TRUE

\* Closing the Team: Step 1 shuts the teammates down, Step 2 summarizes
mayClose(teammates) ==
  \A n \in TeammateNames : teammates[n].status \in {"none", "shutdown_requested"}

\* Step 1: TeamCreate(team_name, description)
TeamCreate ==
  /\ ~team.created
  /\ team' = [team EXCEPT !.created = TRUE]
  /\ UNCHANGED << coreVars, refineVars, fanoutVars, marketVars, pluginVars >>

\* Step 2: Task(..., name, team_name) adds a teammate to the team created first
AddTeammate(n) ==
  /\ team.created /\ ~team.summarized
  /\ team.teammates[n].status = "none"
  /\ team' = [team EXCEPT !.teammates[n] = [status |-> "active", task |-> "pending"]]
  /\ UNCHANGED << coreVars, refineVars, fanoutVars, marketVars, pluginVars >>

\* TaskUpdate(taskId, status)
TaskUpdate(n, status) ==
  /\ team.teammates[n].status = "active"
  /\ << team.teammates[n].task, status >> \in
       { << "pending", "in_progress" >>, << "in_progress", "completed" >> }
  /\ team' = [team EXCEPT !.teammates[n].task = status]
  /\ UNCHANGED << coreVars, refineVars, fanoutVars, marketVars, pluginVars >>

\* SendMessage(type: "shutdown_request", recipient)
ShutdownRequest(n) ==
  /\ team.teammates[n].status = "active"
  /\ team' = [team EXCEPT !.teammates[n].status = "shutdown_requested"]
  /\ UNCHANGED << coreVars, refineVars, fanoutVars, marketVars, pluginVars >>

\* Step 2 of the closing: the unified summary for the user
Summarize ==
  /\ team.created /\ ~team.summarized
  /\ mayClose(team.teammates)
  /\ team' = [team EXCEPT !.summarized = TRUE]
  /\ UNCHANGED << coreVars, refineVars, fanoutVars, marketVars, pluginVars >>

InitTeam == CoreIdle /\ SkillsIdle

NextTeam ==
  \/ TeamCreate
  \/ \E n \in TeammateNames : AddTeammate(n)
  \/ \E n \in TeammateNames, status \in {"in_progress", "completed"} : TaskUpdate(n, status)
  \/ \E n \in TeammateNames : ShutdownRequest(n)
  \/ Summarize

SpecTeam == InitTeam /\ [][NextTeam]_vars

ScriptArgs == {"", "text"}
\* the output file argument: "" when missing, or a path of the caller's choice,
\* which for the report may be the report file of the date
OutputArgs == {"", << "out", 0 >>}
ReportArgs == OutputArgs \cup {DatedFile("daily_insight", today)}

\* the test never taking an argument for missing
isEmpty_Never(arg) == FALSE

\* [ -z "$1" ]
isEmpty(arg) == arg = ""

\* the usage message, and exit 1
Usage(script) == [script |-> script, stdout |-> "usage", exit |-> 1, runner |-> FALSE]

\* the scripts of the news analysis agent and of the market trend agent: the
\* argument check, then opencode run, its output redirected into the output file
\* when there is one; the script exits with the runner's status
agentScript(script, content, outputFile, runnerOk) ==
  IF isEmpty(content)
  THEN [run |-> Usage(script), files |-> files]
  ELSE [run |-> [script |-> script,
                 stdout |-> IF isEmpty(outputFile) THEN "result" ELSE "none",
                 exit |-> IF runnerOk THEN 0 ELSE 1, runner |-> TRUE],
        files |-> IF isEmpty(outputFile) THEN files
                  ELSE [files EXCEPT ![outputFile] = [kind |-> "analysis", date |-> 0]]]

\* report_generator.sh: the argument check, the report built with the date tag,
\* written over the output file when there is one and printed otherwise
report_generator(newsAnalysis, marketTrend, outputFile) ==
  IF isEmpty(newsAnalysis) \/ isEmpty(marketTrend)
  THEN [run |-> Usage("report_generator"), files |-> files]
  ELSE [run |-> [script |-> "report_generator",
                 stdout |-> IF isEmpty(outputFile) THEN "report" ELSE "saved",
                 exit |-> 0, runner |-> FALSE],
        files |-> IF isEmpty(outputFile) THEN files
                  ELSE [files EXCEPT ![outputFile] = [kind |-> "report", date |-> today]]]

\* a script has run: its files and what it printed; the report generator and the
\* controller that came to their end are remembered for the date
Ran(out) ==
  files' = out.files
  /\ lastRun' = out.run
  /\ ran' = IF out.run.script \in {"report_generator", "controller"} /\ out.run.exit = 0
            THEN [ran EXCEPT ![today] = @ \cup {out.run.script}]
            ELSE ran

RunNewsAnalysis(content, outputFile, runnerOk) ==
  /\ Ran(agentScript("agent_news_analysis", content, outputFile, runnerOk))
  /\ UNCHANGED << today, coreVars, refineVars, fanoutVars, teamVars, pluginVars >>

RunMarketTrend(content, outputFile, runnerOk) ==
  /\ Ran(agentScript("agent_market_trend", content, outputFile, runnerOk))
  /\ UNCHANGED << today, coreVars, refineVars, fanoutVars, teamVars, pluginVars >>

RunReportGenerator(newsAnalysis, marketTrend, outputFile) ==
  /\ Ran(report_generator(newsAnalysis, marketTrend, outputFile))
  /\ UNCHANGED << today, coreVars, refineVars, fanoutVars, teamVars, pluginVars >>

\* main.sh: the search tasks of the date are written to the task file of the
\* date, the log lines are appended to the log file of the date
RunMain ==
  /\ UNCHANGED << today, coreVars, refineVars, fanoutVars, teamVars, pluginVars >>
  /\ Ran([run |-> [script |-> "main", stdout |-> "log", exit |-> 0, runner |-> FALSE],
       files |-> [files EXCEPT
                    ![DatedFile("search_tasks", today)] =
                       [kind |-> "search_tasks", date |-> today],
                    ![DatedFile("run", today)] = [kind |-> "log", date |-> today]]])

\* the main controller: the directories, the four step banners, and the line that
\* names the report file of the date as saved; no file is written
RunController ==
  /\ UNCHANGED << today, coreVars, refineVars, fanoutVars, teamVars, pluginVars >>
  /\ Ran([run |-> [script |-> "controller", stdout |-> "report saved", exit |-> 0,
                runner |-> FALSE],
       files |-> files])

\* the next day's scheduled run: date +%Y-%m-%d changes
NextDay ==
  /\ today < MaxDays
  /\ today' = today + 1
  /\ UNCHANGED << files, ran, lastRun, coreVars, refineVars, fanoutVars, teamVars, pluginVars >>

InitMarket == CoreIdle /\ SkillsIdle

NextMarket ==
  \/ \E content \in ScriptArgs, outputFile \in OutputArgs, runnerOk \in BOOLEAN :
       RunNewsAnalysis(content, outputFile, runnerOk)
  \/ \E content \in ScriptArgs, outputFile \in OutputArgs, runnerOk \in BOOLEAN :
       RunMarketTrend(content, outputFile, runnerOk)
  \/ \E newsAnalysis \in ScriptArgs, marketTrend \in ScriptArgs, outputFile \in ReportArgs :
       RunReportGenerator(newsAnalysis, marketTrend, outputFile)
  \/ RunMain
  \/ RunController
  \/ NextDay

SpecMarket == InitMarket /\ [][NextMarket]_vars

\* C24: each stage script run without a required positional argument prints the
\* usage message and exits with a non-zero status, without running the model
\* runner and without writing any file.
C24_MissingArgumentIsUsageAndNothingElse ==
  [][\A outputFile \in ReportArgs, runnerOk \in BOOLEAN :
       /\ (RunNewsAnalysis("", outputFile, runnerOk)
             \/ RunMarketTrend("", outputFile, runnerOk))
            => (/\ lastRun'.stdout = "usage" /\ lastRun'.exit # 0
                /\ ~lastRun'.runner /\ files' = files)
       /\ \A newsAnalysis \in ScriptArgs, marketTrend \in ScriptArgs :
            (("" \in {newsAnalysis, marketTrend})
               /\ RunReportGenerator(newsAnalysis, marketTrend, outputFile))
              => (/\ lastRun'.stdout = "usage" /\ lastRun'.exit # 0
                  /\ ~lastRun'.runner /\ files' = files)]_vars

\* the report generator has answered with its usage while the file written on the
\* day before is as it was
C24_Witness ==
  /\ lastRun = Usage("report_generator")
  /\ today = 2
  /\ ran[2] = {"controller"}
  /\ files[<< "out", 0 >>] = [kind |-> "report", date |-> 1]

\* the pipeline has run on the date: main.sh has left its search tasks, the report
\* generator has built the report and the controller has announced it saved
pipelineRan(d) ==
  /\ files[DatedFile("search_tasks", d)] # NoFile
  /\ ran[d] = {"report_generator", "controller"}

\* C25: the pipeline run on two different dates leaves two report files, each
\* named by its date and holding the report of that date, and the later run
\* leaves the report file and the search-task file of the earlier date as they
\* were.
C25_EachDateKeepsItsOwnReport ==
  \A d \in Dates :
    (pipelineRan(d) /\ d <= today)
      => /\ files[DatedFile("daily_insight", d)] = [kind |-> "report", date |-> d]
         /\ files[DatedFile("search_tasks", d)] = [kind |-> "search_tasks", date |-> d]

(***************************************************************************)
(* knowledge-preflight-router plugin (specification SpecPlugin)            *)
(***************************************************************************)
\* configSchema: emptyPluginConfigSchema(), a schema with no properties
configSchema == {}

PluginLoaded == "[knowledge-preflight-router] plugin loaded"

\* register with the line logged whether or not the runtime has a log function
register_LogsAnyway(api) ==
  [api EXCEPT !.log = Append(@, PluginLoaded), !.calls = @ + 1]

\* register(api): api.runtime.log?.(...) calls log when the runtime has one and
\* does nothing otherwise
register(api) ==
  [api EXCEPT !.log = IF api.hasLog THEN Append(@, PluginLoaded) ELSE @,
              !.calls = @ + 1]

\* the host loads the plugin
Register(h) ==
  /\ hosts[h].calls < MaxRegistrations
  /\ hosts' = [hosts EXCEPT ![h] = register(@)]
  /\ UNCHANGED << coreVars, refineVars, fanoutVars, teamVars, marketVars >>

InitPlugin ==
  /\ CoreIdle /\ FanoutIdle /\ TeamIdle /\ MarketIdle /\ RefineIdle
  /\ hosts \in [Hosts -> {NewApi(hasLog) : hasLog \in BOOLEAN}]

NextPlugin == \E h \in Hosts : Register(h)

SpecPlugin == InitPlugin /\ [][NextPlugin]_vars

\* C26 as stated: every registration of the plugin has put exactly one "plugin
\* loaded" line in the host's log and changed nothing else, and the declared
\* configuration schema is empty.
C26_OneLogLinePerRegistration ==
  /\ configSchema = {}
  /\ \A h \in Hosts :
       /\ Len(hosts[h].log) = hosts[h].calls
       /\ \A i \in 1..Len(hosts[h].log) : hosts[h].log[i] = PluginLoaded
       /\ hosts[h].registry = {}

\* C26 amended: a registration puts exactly one "plugin loaded" line in the log
\* of a host whose runtime has a log function and none where the runtime has no
\* log function; nothing else of the host changes, and the declared configuration
\* schema is empty.
C26_OneLogLineWhereTheRuntimeLogs ==
  /\ configSchema = {}
  /\ \A h \in Hosts :
       /\ Len(hosts[h].log) = (IF hosts[h].hasLog THEN hosts[h].calls ELSE 0)
       /\ \A i \in 1..Len(hosts[h].log) : hosts[h].log[i] = PluginLoaded
       /\ hosts[h].registry = {}

\* the plugin was registered twice with a host that logs and once with a host
\* that does not
C26_Witness ==
  \E h, g \in Hosts :
    /\ hosts[h].hasLog /\ hosts[h].calls = 2 /\ Len(hosts[h].log) = 2
    /\ ~hosts[g].hasLog /\ hosts[g].calls = 1 /\ hosts[g].log = << >>

(***************************************************************************)
(* The evolved and the original dispatcher side by side (specification     *)
(* SpecRefine)                                                             *)
(*                                                                         *)
(* Both are created with a replyToMessageId and mention targets, under the *)
(* default retry configuration, and deliver is called on each with the     *)
(* same final text.  The k-th sendMessageFeishu call of each ends with the *)
(* k-th outcome.  calls is the sequence of sendMessageFeishu calls issued. *)
(***************************************************************************)
FINAL_TEXT_RETRY_MAX_ATTEMPTS == 4

TextLess == << "<" >>
RefineTexts == {TextOk, TextLong, TextLess, TextPartial, TextTagged}

\* deliver of the evolved dispatcher up to its first sendMessageFeishu call
evolvedDeliver(text) ==
  LET split == splitFeishuReasoningText(text)
  IN [NoDelivery EXCEPT
        !.text = text,
        !.reasoning = split.reasoningText,
        !.answer = split.answerText,
        !.phase = IF returnsEarly("final", text) THEN "end"
                  ELSE IF NonBlank(split.reasoningText) THEN "reasoning"
                  ELSE IF NonBlank(split.answerText) THEN "direct"
                  ELSE "end",
        !.chunk = 1,
        !.replyToId = TRUE]

\* deliver of the original dispatcher up to its first sendMessageFeishu call:
\* the text is sent as it is
originalDeliver(text) ==
  [NoDelivery EXCEPT
     !.text = text,
     !.answer = text,
     !.phase = IF returnsEarly("final", text) THEN "end" ELSE "direct",
     !.chunk = 1,
     !.replyToId = TRUE]

\* the sendMessageFeishu call a dispatcher issues next
nextCall(d) ==
  IF d.phase = "reasoning" THEN reasoningMessage(d.reasoning, TRUE, TRUE)
  ELSE IF d.phase = "direct" THEN sendFinalTextMessage(d.answer, d.chunk, TRUE, TRUE)
  ELSE IF d.phase = "queue" THEN sendFinalTextMessage(d.answer, d.chunk, d.replyToId, TRUE)
  ELSE failureNoticeMessage(d.answer)

\* the evolved dispatcher's next sendMessageFeishu call returns or throws, and
\* the code runs up to the call after it
evolvedSend(d, error) ==
  LET called == [d EXCEPT !.calls = Append(@, nextCall(d))]
      rc == getRetryConfig([x \in {} |-> 0])
      lastChunk == d.chunk >= chunkCount(d.answer, TextChunkLimit)
  IN IF d.phase = "reasoning"
     THEN [called EXCEPT !.phase = IF NonBlank(d.answer) THEN "direct" ELSE "end"]
     ELSE IF d.phase = "direct"
     THEN IF error = NoError
          THEN IF lastChunk THEN [called EXCEPT !.phase = "end"]
               ELSE [called EXCEPT !.chunk = @ + 1]
          ELSE IF loopContinues(1, rc.maxAttempts)
          THEN [called EXCEPT !.phase = "queue", !.attempt = 1, !.chunk = 1]
          ELSE [called EXCEPT !.phase = "end"]
     ELSE IF d.phase = "queue"
     THEN IF error = NoError
          THEN IF lastChunk THEN [called EXCEPT !.phase = "end"]
               ELSE [called EXCEPT !.chunk = @ + 1]
          ELSE IF attemptsExhausted(d.attempt, rc.maxAttempts)
          THEN [called EXCEPT !.phase = "notice",
                              !.replyToId = replyToIdAfterFailure(@, error)]
          ELSE [called EXCEPT !.attempt = @ + 1, !.chunk = 1,
                              !.replyToId = replyToIdAfterFailure(@, error)]
     ELSE [called EXCEPT !.phase = "end"]

\* the same for the original dispatcher: no reasoning message, the attempts
\* counted against FINAL_TEXT_RETRY_MAX_ATTEMPTS, no onFailure
originalSend(d, error) ==
  LET called == [d EXCEPT !.calls = Append(@, nextCall(d))]
      lastChunk == d.chunk >= chunkCount(d.answer, TextChunkLimit)
  IN IF d.phase = "direct"
     THEN IF error = NoError
          THEN IF lastChunk THEN [called EXCEPT !.phase = "end"]
               ELSE [called EXCEPT !.chunk = @ + 1]
          ELSE [called EXCEPT !.phase = "queue", !.attempt = 1, !.chunk = 1]
     ELSE IF error = NoError
     THEN IF lastChunk THEN [called EXCEPT !.phase = "end"]
          ELSE [called EXCEPT !.chunk = @ + 1]
     ELSE IF d.attempt >= FINAL_TEXT_RETRY_MAX_ATTEMPTS
     THEN [called EXCEPT !.phase = "end",
                         !.replyToId = replyToIdAfterFailure(@, error)]
     ELSE [called EXCEPT !.attempt = @ + 1, !.chunk = 1,
                         !.replyToId = replyToIdAfterFailure(@, error)]

sending(d) == d.phase \in {"reasoning", "direct", "queue", "notice"}

\* deliver is called on both dispatchers with the same final text
RefineDeliver(text) ==
  /\ evolved.phase = "none"
  /\ evolved' = evolvedDeliver(text)
  /\ original' = originalDeliver(text)
  /\ UNCHANGED << coreVars, fanoutVars, teamVars, marketVars, pluginVars >>

\* the next sendMessageFeishu call of each dispatcher ends, with the same outcome
RefineSend(error) ==
  /\ sending(evolved) \/ sending(original)
  /\ Len(evolved.calls) < MaxCalls
  /\ Len(original.calls) < MaxCalls
  /\ evolved' = IF sending(evolved) THEN evolvedSend(evolved, error) ELSE evolved
  /\ original' = IF sending(original) THEN originalSend(original, error) ELSE original
  /\ UNCHANGED << coreVars, fanoutVars, teamVars, marketVars, pluginVars >>

InitRefine == CoreIdle /\ SkillsIdle

NextRefine ==
  \/ \E text \in RefineTexts : RefineDeliver(text)
  \/ \E error \in SendOutcomes : RefineSend(error)

SpecRefine == InitRefine /\ [][NextRefine]_vars

\* a text with no thinking tag, not starting with the reasoning prefix, and with
\* no white space at either end
plainText(t) ==
  /\ t # << >>
  /\ Trim(t) = t
  /\ \A i \in 0..(Len(t) - 1) : ThinkingTagMatchAt(t, i).len = 0
  /\ ~StartsWith(t, REASONING_MESSAGE_PREFIX)

\* C39 as stated: for a plain final text and whatever the outcomes of the sends,
\* the calls of the evolved dispatcher are the calls of the original one, but for
\* one failure notice at the end.
C39_EvolvedCallsAreTheOriginalCalls ==
  plainText(evolved.text)
    => /\ original.calls = SelectSeq(evolved.calls, LAMBDA m : m.kind # "notice")
       /\ \A k \in 1..Len(evolved.calls) :
            evolved.calls[k].kind = "notice"
              => k = Len(evolved.calls) /\ original.phase = "end"

====
